---- MODULE Spec2Model ----
(***************************************************************************)
(* Model of asyncgpio: the Line lifecycle state machine (asyncgpio/gpio.py) *)
(* above the libgpiod binding, and the event-stream consumer.               *)
(***************************************************************************)
EXTENDS Integers, Sequences, FiniteSets, TLC

VARIABLES
    lines,      \* Line objects: id -> instance attributes
    scope,      \* id -> TRUE while a `with LINE:` block entered on it is open
    kernel,     \* native side: chip offset -> request status, level, event queue
    task,       \* id -> position of the consumer task inside Line.__anext__
    nReqOk,     \* id -> number of native requests that returned success
    nRelease,   \* id -> number of native gpiod_line_release calls attempted
    last,       \* the most recent call: operation, line id, result, native calls
    stream,     \* chip offset -> events queued and events yielded since the
                \* request now held was granted (kept where the history is on)
    chip,       \* the Chip object the Lines come from
    event,      \* a raw event record and the Event object decoded from it
    watcher     \* the GpioWatcher of the mock harness: debug file, pin
                \* objects, watch queues and the position of the polling task

vars ==
    <<lines, scope, kernel, task, nReqOk, nRelease, last, stream, chip, event,
      watcher>>

(* ------------------------------ bounds --------------------------------- *)

MaxAcquire == 2     \* requests / releases counted per Line
MaxQueue == 1       \* events the kernel buffers per requested line
MaxEvents == 2      \* events recorded in the history of one acquisition
MaxChips == 2       \* Chip objects constructed
MaxLines == 2       \* Lines made from the Chips
MaxWrites == 3      \* consecutive writes followed by one read

(* ------------------------- program constants --------------------------- *)

_FREE == 0
_PRE_IO == 1
_IN_IO == 2
_PRE_EV == 3
_IN_EV == 4
_IN_USE == {_IN_IO, _IN_EV}

DIRECTION_INPUT == 2
DIRECTION_OUTPUT == 3
REQUEST_DIRECTION_AS_IS == 1
REQUEST_EVENT_RISING_EDGE == 5
REQUEST_EVENT_BOTH_EDGES == 6
REQUEST_FLAG_ACTIVE_LOW == 4
EVENT_RISING_EDGE == 1
EVENT_FALLING_EDGE == 2

GPIOD_LINE_DIRECTION_INPUT == 1
GPIOD_LINE_DIRECTION_OUTPUT == 2

None == -1          \* Python None (attribute not set)
NULL == 0           \* ffi.NULL

\* the consumer name given to Chip.line(); names are positive numbers
ConsumerName == 1

\* str.encode("utf-8") and bytes.decode("utf-8"): bytes values are distinct
\* from every str value, from None and from NULL
encode(s) == 0 - s - 1
decode(b) == 0 - b - 1

(* values the callers pass *)
\* open(direction, default, flags); REQUEST_DIRECTION_AS_IS is a direction
\* _enter_io does not know
OpenArgs ==
    {<<DIRECTION_INPUT, 0, 0>>,
     <<DIRECTION_OUTPUT, 0, 0>>,
     <<DIRECTION_OUTPUT, 1, REQUEST_FLAG_ACTIVE_LOW>>,
     <<REQUEST_DIRECTION_AS_IS, 0, 0>>}
\* monitor(type, flags)
MonitorArgs ==
    {<<REQUEST_EVENT_RISING_EDGE, 0>>,
     <<REQUEST_EVENT_BOTH_EDGES, REQUEST_FLAG_ACTIVE_LOW>>}

(* ------------------------------ results -------------------------------- *)

Ok(v) == [exc |-> "none", msg |-> "", val |-> v]
Raise(e, m) == [exc |-> e, msg |-> m, val |-> None]
Call(fn, h, args) == [fn |-> fn, h |-> h, args |-> args]

(* --------------------------- native binding ---------------------------- *)

\* struct gpiod_line* the chip hands out for an offset: one per offset
gpiod_chip_get_line(offset, found) == IF found THEN offset + 1 ELSE NULL

OffsetOf(h) == h - 1

FreeKernelLine == [req |-> "free", val |-> 0, queue |-> <<>>]

\* status of a request on handle h: refused when the binding reports failure
\* or the handle is already requested
RequestStatus(kern, h, granted) ==
    IF granted /\ kern[OffsetOf(h)].req = "free" THEN 0 ELSE -1

gpiod_line_request_input_flags(kern, h, granted) ==
    IF RequestStatus(kern, h, granted) = 0
    THEN [kern EXCEPT ![OffsetOf(h)].req = "in"]
    ELSE kern

gpiod_line_request_output_flags(kern, h, default, granted) ==
    IF RequestStatus(kern, h, granted) = 0
    THEN [kern EXCEPT ![OffsetOf(h)].req = "out", ![OffsetOf(h)].val = default]
    ELSE kern

gpiod_line_request(kern, h, granted) ==
    IF RequestStatus(kern, h, granted) = 0
    THEN [kern EXCEPT ![OffsetOf(h)].req = "ev"]
    ELSE kern

gpiod_line_release(kern, h) ==
    IF h = NULL THEN kern
    ELSE [kern EXCEPT ![OffsetOf(h)].req = "free", ![OffsetOf(h)].queue = <<>>]

\* level read back from a requested line: the level written for an output,
\* the externally driven level for an input, -1 when the binding fails
gpiod_line_get_value(kern, h, works, level) ==
    IF ~works \/ kern[OffsetOf(h)].req = "free" THEN -1
    ELSE IF kern[OffsetOf(h)].req = "out" THEN kern[OffsetOf(h)].val
    ELSE level

SetValueStatus(kern, h, works) ==
    IF works /\ kern[OffsetOf(h)].req = "out" THEN 0 ELSE -1

gpiod_line_set_value(kern, h, value, works) ==
    IF SetValueStatus(kern, h, works) = 0
    THEN [kern EXCEPT ![OffsetOf(h)].val = value]
    ELSE kern

\* descriptor of an event request: one per requested handle, negative when
\* the handle is not requested for events
gpiod_line_event_get_fd(kern, h, works) ==
    IF works /\ kern[OffsetOf(h)].req = "ev" THEN h ELSE -1

\* what wait_socket_readable(fd) waits for
Readable(kern, fd) ==
    /\ kern[OffsetOf(fd)].req = "ev"
    /\ kern[OffsetOf(fd)].queue # <<>>

\* gpiod_line_event_read_fd(fd, ev): "fail" for a non-zero status, "block"
\* when the descriptor has nothing to read, else "event"
ReadOutcome(kern, fd, works) ==
    IF ~works \/ kern[OffsetOf(fd)].req # "ev" THEN "fail"
    ELSE IF kern[OffsetOf(fd)].queue = <<>> THEN "block"
    ELSE "event"

gpiod_line_event_read_fd(kern, fd) ==
    [kern EXCEPT ![OffsetOf(fd)].queue = Tail(@)]

\* direction the kernel reports for a line
gpiod_line_direction(kern, h) ==
    IF kern[OffsetOf(h)].req = "out"
    THEN GPIOD_LINE_DIRECTION_OUTPUT
    ELSE GPIOD_LINE_DIRECTION_INPUT

gpiod_line_offset(h) == OffsetOf(h)

\* consumer the kernel reports: NULL for a line nobody holds
gpiod_line_consumer(kern, h) ==
    IF kern[OffsetOf(h)].req = "free" THEN NULL ELSE encode(ConsumerName)

MetaNative ==
    [active_state |-> "gpiod_line_active_state",
     is_open_drain |-> "gpiod_line_is_open_drain",
     is_open_source |-> "gpiod_line_is_open_source",
     is_used |-> "gpiod_line_is_used",
     name |-> "gpiod_line_name"]

MetaAccessors == DOMAIN MetaNative

(* ------------------------------- Line ---------------------------------- *)

\* class attributes and __init__
NewLine(offset) ==
    [_state |-> _FREE, _line |-> None, _direction |-> None, _default |-> None,
     _flags |-> None, _type |-> None, _offset |-> offset,
     _consumer |-> encode(ConsumerName), _chip |-> 1]

\* variant of Line.__exit__ that clears the handle without releasing it
Line__exit__NoRelease(l, kern, relRaises) ==
    [line |-> [l EXCEPT !._line = None, !._state = _FREE],
     kernel |-> kern, calls |-> <<>>, res |-> Ok(None)]

\* Line.__exit__: result is the Line, the kernel, the native calls made and
\* the exception leaving the method (if any)
Line__exit__(l, kern, relRaises) ==
    IF l._line # None
    THEN IF relRaises
         THEN [line |-> [l EXCEPT !._line = None],
               kernel |-> kern,
               calls |-> <<Call("gpiod_line_release", l._line, <<>>)>>,
               res |-> Raise("NativeError", "gpiod_line_release")]
         ELSE [line |-> [l EXCEPT !._line = None, !._state = _FREE],
               kernel |-> gpiod_line_release(kern, l._line),
               calls |-> <<Call("gpiod_line_release", l._line, <<>>)>>,
               res |-> Ok(None)]
    ELSE [line |-> [l EXCEPT !._state = _FREE],
          kernel |-> kern, calls |-> <<>>, res |-> Ok(None)]

\* variant of the cleanup that gives the handle back but leaves the Line
\* marked as acquired
FailWithCleanupStillActive(l, kern, calls, relRaises, exc) ==
    LET x == Line__exit__(l, kern, relRaises)
    IN  [line |-> [x.line EXCEPT !._state = _IN_IO], kernel |-> x.kernel,
         calls |-> calls \o x.calls,
         res |-> IF x.res.exc = "none" THEN exc ELSE x.res, reqOk |-> FALSE]

\* cleanup inside a failing _enter_io: self.__exit__() then raise exc
FailWithCleanup(l, kern, calls, relRaises, exc) ==
    LET x == Line__exit__(l, kern, relRaises)
    IN  [line |-> x.line, kernel |-> x.kernel, calls |-> calls \o x.calls,
         res |-> IF x.res.exc = "none" THEN exc ELSE x.res, reqOk |-> FALSE]

Line_enter_io(l, kern, granted, relRaises) ==
    IF l._direction = DIRECTION_INPUT
    THEN LET c == <<Call("gpiod_line_request_input_flags", l._line, <<l._flags>>)>>
         IN  IF RequestStatus(kern, l._line, granted) # 0
             THEN FailWithCleanup(l, kern, c, relRaises,
                                  Raise("OSError", "unable to set direction"))
             ELSE [line |-> [l EXCEPT !._state = _IN_IO],
                   kernel |-> gpiod_line_request_input_flags(kern, l._line, granted),
                   calls |-> c, res |-> Ok(None), reqOk |-> TRUE]
    ELSE IF l._direction = DIRECTION_OUTPUT
    THEN LET c == <<Call("gpiod_line_request_output_flags", l._line,
                         <<l._flags, l._default>>)>>
         IN  IF RequestStatus(kern, l._line, granted) # 0
             THEN FailWithCleanup(l, kern, c, relRaises,
                                  Raise("OSError", "unable to set direction"))
             ELSE [line |-> [l EXCEPT !._state = _IN_IO],
                   kernel |-> gpiod_line_request_output_flags(kern, l._line,
                                                              l._default, granted),
                   calls |-> c, res |-> Ok(None), reqOk |-> TRUE]
    ELSE FailWithCleanup(l, kern, <<>>, relRaises,
                         Raise("RuntimeError", "Unknown direction"))

\* variant of Line._enter_ev that leaves req.flags at zero
Line_enter_evNoFlags(l, kern, granted) ==
    LET c == <<Call("gpiod_line_request", l._line, <<l._type, 0>>)>>
    IN  IF RequestStatus(kern, l._line, granted) # 0
        THEN [line |-> l, kernel |-> kern, calls |-> c,
              res |-> Raise("OSError", "unable to request event monitoring"),
              reqOk |-> FALSE]
        ELSE [line |-> [l EXCEPT !._state = _IN_EV],
              kernel |-> gpiod_line_request(kern, l._line, granted),
              calls |-> c, res |-> Ok(None), reqOk |-> TRUE]

Line_enter_ev(l, kern, granted) ==
    LET c == <<Call("gpiod_line_request", l._line, <<l._type, l._flags>>)>>
    IN  IF RequestStatus(kern, l._line, granted) # 0
        THEN [line |-> l, kernel |-> kern, calls |-> c,
              res |-> Raise("OSError", "unable to request event monitoring"),
              reqOk |-> FALSE]
        ELSE [line |-> [l EXCEPT !._state = _IN_EV],
              kernel |-> gpiod_line_request(kern, l._line, granted),
              calls |-> c, res |-> Ok(None), reqOk |-> TRUE]

\* variant of Line.__enter__ that fetches the handle before looking at the
\* state
Line__enter__HandleFirst(l, kern, found, granted, relRaises) ==
    LET h == gpiod_chip_get_line(l._offset, found)
        l1 == [l EXCEPT !._line = h]
        c == <<Call("gpiod_chip_get_line", NULL, <<l._offset>>)>>
    IN  IF l._state \in _IN_USE
        THEN [line |-> l, kernel |-> kern, calls |-> <<>>,
              res |-> Raise("OSError", "This line is already in use"), reqOk |-> FALSE]
        ELSE IF l._state = _FREE
        THEN [line |-> l1, kernel |-> kern, calls |-> c,
              res |-> Raise("RuntimeError", "You need to call .open() or .event()"),
              reqOk |-> FALSE]
        ELSE IF h = NULL
        THEN [line |-> l1, kernel |-> kern, calls |-> c,
              res |-> Raise("OSError", "unable to get line"), reqOk |-> FALSE]
        ELSE LET x == IF l1._state = _PRE_IO
                      THEN Line_enter_io(l1, kern, granted, relRaises)
                      ELSE Line_enter_ev(l1, kern, granted)
             IN  [x EXCEPT !.calls = c \o x.calls]

Line__enter__(l, kern, found, granted, relRaises) ==
    IF l._state \in _IN_USE
    THEN [line |-> l, kernel |-> kern, calls |-> <<>>,
          res |-> Raise("OSError", "This line is already in use"), reqOk |-> FALSE]
    ELSE IF l._state = _FREE
    THEN [line |-> l, kernel |-> kern, calls |-> <<>>,
          res |-> Raise("RuntimeError", "You need to call .open() or .event()"),
          reqOk |-> FALSE]
    ELSE LET h == gpiod_chip_get_line(l._offset, found)
             l1 == [l EXCEPT !._line = h]
             c == <<Call("gpiod_chip_get_line", NULL, <<l._offset>>)>>
         IN  IF h = NULL
             THEN [line |-> l1, kernel |-> kern, calls |-> c,
                   res |-> Raise("OSError", "unable to get line"), reqOk |-> FALSE]
             ELSE LET x == IF l1._state = _PRE_IO
                           THEN Line_enter_io(l1, kern, granted, relRaises)
                           ELSE Line_enter_ev(l1, kern, granted)
                  IN  [x EXCEPT !.calls = c \o x.calls]

\* variant of Line.open that accepts a Line only in _FREE
Line_openOnlyFromFree(l, direction, default, flags) ==
    IF l._state # _FREE
    THEN [line |-> l, res |-> Raise("OSError", "This line is already in use")]
    ELSE [line |-> [l EXCEPT !._direction = direction, !._default = default,
                             !._flags = flags, !._state = _PRE_IO],
          res |-> Ok(0)]

\* variant of Line.open that records its arguments before the in-use check
Line_openRecordsFirst(l, direction, default, flags) ==
    IF l._state \in _IN_USE
    THEN [line |-> [l EXCEPT !._direction = direction, !._default = default,
                             !._flags = flags],
          res |-> Raise("OSError", "This line is already in use")]
    ELSE [line |-> [l EXCEPT !._direction = direction, !._default = default,
                             !._flags = flags, !._state = _PRE_IO],
          res |-> Ok(0)]

Line_open(l, direction, default, flags) ==
    IF l._state \in _IN_USE
    THEN [line |-> l, res |-> Raise("OSError", "This line is already in use")]
    ELSE [line |-> [l EXCEPT !._direction = direction, !._default = default,
                             !._flags = flags, !._state = _PRE_IO],
          res |-> Ok(0)]

\* variant of Line.monitor that does not record the flags
Line_monitorNoFlags(l, type, flags) ==
    IF l._state \in _IN_USE
    THEN [line |-> l, res |-> Raise("OSError", "This line is already in use")]
    ELSE [line |-> [l EXCEPT !._state = _PRE_EV, !._type = type], res |-> Ok(0)]

\* variant of Line.monitor without the in-use check
Line_monitorUnchecked(l, type, flags) ==
    [line |-> [l EXCEPT !._state = _PRE_EV, !._type = type, !._flags = flags],
     res |-> Ok(0)]

Line_monitor(l, type, flags) ==
    IF l._state \in _IN_USE
    THEN [line |-> l, res |-> Raise("OSError", "This line is already in use")]
    ELSE [line |-> [l EXCEPT !._state = _PRE_EV, !._type = type, !._flags = flags],
          res |-> Ok(0)]

\* variant of Line._is_open that only rejects a _FREE Line
Line_is_openUnlessFree(l) == l._state # _FREE

\* Line._is_open: TRUE when it returns, FALSE when it raises
Line_is_open(l) == l._state \in _IN_USE

NotOpen == Raise("RuntimeError", "Line is not open")

\* cffi refuses None where a struct gpiod_line* is expected
BadPointer == Raise("TypeError", "not a cdata pointer")

Line_value_get(l, kern, works, level) ==
    IF ~Line_is_open(l) THEN [res |-> NotOpen, calls |-> <<>>]
    ELSE IF l._line = None THEN [res |-> BadPointer, calls |-> <<>>]
    ELSE [res |-> Ok(gpiod_line_get_value(kern, l._line, works, level)),
          calls |-> <<Call("gpiod_line_get_value", l._line, <<>>)>>]

\* variant of the value setter that checks the Line and writes nothing
Line_value_setDropped(l, kern, value, works) ==
    IF ~Line_is_open(l) THEN [res |-> NotOpen, calls |-> <<>>, kernel |-> kern]
    ELSE IF l._line = None THEN [res |-> BadPointer, calls |-> <<>>, kernel |-> kern]
    ELSE [res |-> Ok(None), calls |-> <<>>, kernel |-> kern]

Line_value_set(l, kern, value, works) ==
    IF ~Line_is_open(l) THEN [res |-> NotOpen, calls |-> <<>>, kernel |-> kern]
    ELSE IF l._line = None THEN [res |-> BadPointer, calls |-> <<>>, kernel |-> kern]
    ELSE [res |-> Ok(None),
          calls |-> <<Call("gpiod_line_set_value", l._line, <<value>>)>>,
          kernel |-> gpiod_line_set_value(kern, l._line, value, works)]

\* active_state, is_open_drain, is_open_source, is_used, name
Line_meta(l, a, ret) ==
    IF ~Line_is_open(l) THEN [res |-> NotOpen, calls |-> <<>>]
    ELSE IF l._line = None THEN [res |-> BadPointer, calls |-> <<>>]
    ELSE [res |-> IF a = "name" /\ ret = NULL THEN Ok(None) ELSE Ok(ret),
          calls |-> <<Call(MetaNative[a], l._line, <<>>)>>]

\* the binding dereferences the pointer it is given: with ffi.NULL the
\* process either dies or goes on with whatever it read
NullDeref == Raise("Fatal", "NULL dereference")

\* Line.direction
Line_direction(l, kern, dies) ==
    IF l._line = None THEN [res |-> Ok(l._direction), calls |-> <<>>]
    ELSE [res |-> IF l._line = NULL
                  THEN IF dies THEN NullDeref ELSE Ok(GPIOD_LINE_DIRECTION_INPUT)
                  ELSE Ok(gpiod_line_direction(kern, l._line)),
          calls |-> <<Call("gpiod_line_direction", l._line, <<>>)>>]

\* Line.offset
Line_offset(l, kern, dies) ==
    IF l._line = None THEN [res |-> Ok(l._offset), calls |-> <<>>]
    ELSE [res |-> IF l._line = NULL
                  THEN IF dies THEN NullDeref ELSE Ok(0)
                  ELSE Ok(gpiod_line_offset(l._line)),
          calls |-> <<Call("gpiod_line_offset", l._line, <<>>)>>]

\* Line.consumer
Line_consumer(l, kern, dies) ==
    IF l._line = None THEN [res |-> Ok(l._consumer), calls |-> <<>>]
    ELSE LET n == IF l._line = NULL THEN NULL ELSE gpiod_line_consumer(kern, l._line)
         IN  [res |-> IF l._line = NULL /\ dies THEN NullDeref
                      ELSE IF n = NULL THEN Ok(None)
                      ELSE Ok(decode(n)),
              calls |-> <<Call("gpiod_line_consumer", l._line, <<>>)>>]

RecordedAccessors == {"direction", "offset", "consumer"}

Line_recorded(l, a, kern, dies) ==
    IF a = "direction" THEN Line_direction(l, kern, dies)
    ELSE IF a = "offset" THEN Line_offset(l, kern, dies)
    ELSE Line_consumer(l, kern, dies)

\* variant of Line.__aiter__ that leaves the state check to the first step
Line__aiter__Lazy(l) == Ok(0)

\* Line.__aiter__
Line__aiter__(l) ==
    IF l._state # _IN_EV
    THEN Raise("RuntimeError",
               "You need to call 'with LINE.monitor() / async for event in LINE'")
    ELSE Ok(0)

\* Event.__init__: the value of a decoded event record
Event(event_type) ==
    IF event_type = EVENT_RISING_EDGE THEN Ok(1)
    ELSE IF event_type = EVENT_FALLING_EDGE THEN Ok(0)
    ELSE Raise("RuntimeError", "Unknown event type")

\* struct gpiod_line_event
RawEvent(event_type, tv_sec, tv_nsec) ==
    [event_type |-> event_type, ts |-> [tv_sec |-> tv_sec, tv_nsec |-> tv_nsec]]

\* no Event object
NoEvent == [made |-> FALSE, value |-> None, _ts_sec |-> None, _ts_nsec |-> None]

\* no record has been read and nothing has been decoded
NoRecord == [raw |-> RawEvent(0, 0, 0), obj |-> NoEvent]

\* variant of Event.__init__ that keeps whole seconds only
Event__init__Seconds(ev) ==
    LET r == Event(ev.event_type)
    IN  [res |-> r,
         obj |-> IF r.exc # "none" THEN NoEvent
                 ELSE [made |-> TRUE, value |-> r.val, _ts_sec |-> ev.ts.tv_sec,
                       _ts_nsec |-> 0]]

\* Event.__init__ with the fields it stores; a raise leaves no object
Event__init__(ev) ==
    LET r == Event(ev.event_type)
    IN  [res |-> r,
         obj |-> IF r.exc # "none" THEN NoEvent
                 ELSE [made |-> TRUE, value |-> r.val, _ts_sec |-> ev.ts.tv_sec,
                       _ts_nsec |-> ev.ts.tv_nsec]]

\* Event.timestamp
Event_timestamp(e) == <<e._ts_sec, e._ts_nsec>>

\* variant of the first half of Line.__anext__ that ends the iteration when
\* the Line is no longer monitored
Line__anext__beginEnds(l, kern, works) ==
    IF l._state # _IN_EV
    THEN [res |-> Raise("StopAsyncIteration", ""), calls |-> <<>>, fd |-> None]
    ELSE IF l._line = None THEN [res |-> BadPointer, calls |-> <<>>, fd |-> None]
    ELSE LET fd == gpiod_line_event_get_fd(kern, l._line, works)
             c == <<Call("gpiod_line_event_get_fd", l._line, <<>>)>>
         IN  IF fd < 0
             THEN [res |-> Raise("OSError", "line is closed"), calls |-> c,
                   fd |-> None]
             ELSE [res |-> Ok(None), calls |-> c, fd |-> fd]

\* variant of the first half of Line.__anext__ that does not look at the
\* descriptor it was given and waits for the handle's descriptor
Line__anext__beginUnchecked(l, kern, works) ==
    IF l._state # _IN_EV
    THEN [res |-> Raise("RuntimeError", "wrong state"), calls |-> <<>>, fd |-> None]
    ELSE IF l._line = None THEN [res |-> BadPointer, calls |-> <<>>, fd |-> None]
    ELSE [res |-> Ok(None),
          calls |-> <<Call("gpiod_line_event_get_fd", l._line, <<>>)>>,
          fd |-> l._line]

\* Line.__anext__ up to `await anyio.wait_socket_readable(fd)`
Line__anext__begin(l, kern, works) ==
    IF l._state # _IN_EV
    THEN [res |-> Raise("RuntimeError", "wrong state"), calls |-> <<>>, fd |-> None]
    ELSE IF l._line = None THEN [res |-> BadPointer, calls |-> <<>>, fd |-> None]
    ELSE LET fd == gpiod_line_event_get_fd(kern, l._line, works)
             c == <<Call("gpiod_line_event_get_fd", l._line, <<>>)>>
         IN  IF fd < 0
             THEN [res |-> Raise("OSError", "line is closed"), calls |-> c,
                   fd |-> None]
             ELSE [res |-> Ok(None), calls |-> c, fd |-> fd]

\* variant of the resumed Line.__anext__ that reads a second time when the
\* first read reports a failure
Line__anext__resumeRetry(l, kern, fd, works) ==
    IF ~Line_is_open(l)
    THEN [res |-> NotOpen, calls |-> <<>>, kernel |-> kern, pc |-> "idle"]
    ELSE LET c == <<Call("gpiod_line_event_read_fd", fd, <<>>)>>
             r == ReadOutcome(kern, fd, works)
             again == ReadOutcome(kern, fd, TRUE)
         IN  IF r = "fail" /\ again # "event"
             THEN [res |-> Raise("OSError", "unable to read update"),
                   calls |-> c \o c, kernel |-> kern, pc |-> "idle"]
             ELSE IF r = "block"
             THEN [res |-> Ok(None), calls |-> c, kernel |-> kern, pc |-> "blocked"]
             ELSE [res |-> Event(Head(kern[OffsetOf(fd)].queue)),
                   calls |-> IF r = "fail" THEN c \o c ELSE c,
                   kernel |-> gpiod_line_event_read_fd(kern, fd), pc |-> "idle"]

\* variant of the resumed Line.__anext__ in which a read that reports a
\* failure has taken the event off the queue
Line__anext__resumeLossy(l, kern, fd, works) ==
    IF ~Line_is_open(l)
    THEN [res |-> NotOpen, calls |-> <<>>, kernel |-> kern, pc |-> "idle"]
    ELSE LET c == <<Call("gpiod_line_event_read_fd", fd, <<>>)>>
             r == ReadOutcome(kern, fd, works)
         IN  IF r = "fail"
             THEN [res |-> Raise("OSError", "unable to read update"), calls |-> c,
                   kernel |-> IF ReadOutcome(kern, fd, TRUE) = "event"
                              THEN gpiod_line_event_read_fd(kern, fd) ELSE kern,
                   pc |-> "idle"]
             ELSE IF r = "block"
             THEN [res |-> Ok(None), calls |-> c, kernel |-> kern, pc |-> "blocked"]
             ELSE [res |-> Event(Head(kern[OffsetOf(fd)].queue)), calls |-> c,
                   kernel |-> gpiod_line_event_read_fd(kern, fd), pc |-> "idle"]

\* Line.__anext__ after the wait returned
Line__anext__resume(l, kern, fd, works) ==
    IF ~Line_is_open(l)
    THEN [res |-> NotOpen, calls |-> <<>>, kernel |-> kern, pc |-> "idle"]
    ELSE LET c == <<Call("gpiod_line_event_read_fd", fd, <<>>)>>
             r == ReadOutcome(kern, fd, works)
         IN  IF r = "fail"
             THEN [res |-> Raise("OSError", "unable to read update"), calls |-> c,
                   kernel |-> kern, pc |-> "idle"]
             ELSE IF r = "block"
             THEN [res |-> Ok(None), calls |-> c, kernel |-> kern, pc |-> "blocked"]
             ELSE [res |-> Event(Head(kern[OffsetOf(fd)].queue)), calls |-> c,
                   kernel |-> gpiod_line_event_read_fd(kern, fd), pc |-> "idle"]

(* -------------------------------- Chip --------------------------------- *)

\* sys.argv[0], the default consumer of a Chip, and the label of a chip
ProgramName == 2
ChipLabel == 3
\* number of the chip that carries ChipLabel
LabelledChip == 1

\* handle of chip number n, NULL when the chip cannot be opened
gpiod_chip_open_by_number(n, found) == IF found THEN n + 1 ELSE NULL

gpiod_chip_open_by_label(b, found) ==
    IF found /\ b = encode(ChipLabel) THEN LabelledChip + 1 ELSE NULL

\* no Chip object has been constructed
NoChip ==
    [made |-> FALSE, id |-> 0, _num |-> None, _label |-> None, _consumer |-> None,
     _chip |-> None, entered |-> FALSE]

\* variant of Chip.__init__ that rejects only a missing selector
Chip__init__Lenient(num, label, consumer) ==
    IF num = None /\ label = None
    THEN [res |-> Raise("ValueError", "Specify either label or num"), chip |-> NoChip]
    ELSE [res |-> Ok(None),
          chip |-> [made |-> TRUE, id |-> 0, _num |-> num, _label |-> label,
                    _consumer |-> consumer, _chip |-> None, entered |-> FALSE]]

\* Chip.__init__: the exception raised, or the new object (the caller gives
\* the object its identity)
Chip__init__(num, label, consumer) ==
    IF (num = None) = (label = None)
    THEN [res |-> Raise("ValueError", "Specify either label or num"), chip |-> NoChip]
    ELSE [res |-> Ok(None),
          chip |-> [made |-> TRUE, id |-> 0, _num |-> num, _label |-> label,
                    _consumer |-> consumer, _chip |-> None, entered |-> FALSE]]

\* asyncgpio.open_chip
open_chip(num, label, consumer) == Chip__init__(num, label, consumer)

\* variant of Chip.__enter__ that forgets the handle when the open fails
\* and keeps it otherwise, without telling the caller of a failure
Chip__enter__Silent(c, found) ==
    LET byNumber == c._label = None
        h == IF byNumber THEN gpiod_chip_open_by_number(c._num, found)
             ELSE gpiod_chip_open_by_label(encode(c._label), found)
        call == IF byNumber
                THEN Call("gpiod_chip_open_by_number", NULL, <<c._num>>)
                ELSE Call("gpiod_chip_open_by_label", NULL, <<encode(c._label)>>)
    IN  [chip |-> [c EXCEPT !._chip = h], calls |-> <<call>>, res |-> Ok(0)]

\* Chip.__enter__
Chip__enter__(c, found) ==
    LET byNumber == c._label = None
        h == IF byNumber THEN gpiod_chip_open_by_number(c._num, found)
             ELSE gpiod_chip_open_by_label(encode(c._label), found)
        call == IF byNumber
                THEN Call("gpiod_chip_open_by_number", NULL, <<c._num>>)
                ELSE Call("gpiod_chip_open_by_label", NULL, <<encode(c._label)>>)
    IN  [chip |-> [c EXCEPT !._chip = h], calls |-> <<call>>,
         res |-> IF h = NULL THEN Raise("OSError", "unable to open chip") ELSE Ok(0)]

\* Chip.__exit__
Chip__exit__(c) ==
    [chip |-> [c EXCEPT !._chip = None],
     calls |-> <<Call("gpiod_chip_close", c._chip, <<>>)>>, res |-> Ok(None)]

\* Line.__init__ with the chip and the consumer it is given
Line__init__(c, offset, consumer) ==
    [NewLine(offset) EXCEPT !._consumer = encode(consumer), !._chip = c.id]

\* variant of Chip.line that always hands on the Chip's consumer
Chip_lineOwnConsumer(c, offset, consumer) == Line__init__(c, offset, c._consumer)

\* Chip.line
Chip_line(c, offset, consumer) ==
    Line__init__(c, offset, IF consumer = None THEN c._consumer ELSE consumer)

\* the Chip the Lines of the other specifications were made from: chip 0,
\* opened
OpenedChip ==
    [made |-> TRUE, id |-> 1, _num |-> 0, _label |-> None, _consumer |-> ConsumerName,
     _chip |-> gpiod_chip_open_by_number(0, TRUE), entered |-> TRUE]

(* ----------------------------- mock harness ---------------------------- *)

\* anyio.create_queue(10)
QueueCapacity == 10

\* the pins listed in the debug file, in file order, and the one of them
\* the tests watch
FilePins == <<1, 2>>
WatchedPins == {1}

\* (out, level) as the poll parses it: 1 for "out" and for "hi"
PinState(out, level) == <<out, level>>

\* _GpioPin.state before the first poll
NoneState == <<None, None>>

\* no _GpioPin object in GpioWatcher.targets
NoPin == [made |-> FALSE, state |-> NoneState, mon |-> {}]

\* _GpioPin.__init__
_GpioPin__init__ == [made |-> TRUE, state |-> NoneState, mon |-> {}]

\* GpioWatcher.pin(chip, pin, create)
GpioWatcher_pin(targets, p, create) ==
    IF targets[p].made THEN [res |-> Ok(p), targets |-> targets]
    ELSE IF ~create THEN [res |-> Raise("KeyError", ""), targets |-> targets]
    ELSE [res |-> Ok(p), targets |-> [targets EXCEPT ![p] = _GpioPin__init__]]

\* the orders in which list(self.mon) can list the set
Orders(S) ==
    {f \in [1..Cardinality(S) -> S] : \A a, b \in DOMAIN f : f[a] = f[b] => a = b}

\* variant of see that forwards every poll result
_GpioPin_seeEvery(pin, s, order) ==
    [pin |-> [pin EXCEPT !.state = s], todo |-> order]

\* _GpioPin.see up to its loop: the pin afterwards and the queues the loop
\* will put s to
_GpioPin_see(pin, s, order) ==
    IF pin.state = s THEN [pin |-> pin, todo |-> <<>>]
    ELSE [pin |-> [pin EXCEPT !.state = s], todo |-> order]

\* variant of put that discards the item when the queue is full
Queue_putDiscarding(items, s) ==
    IF Len(items) < QueueCapacity
    THEN [blocked |-> FALSE, items |-> Append(items, s)]
    ELSE [blocked |-> FALSE, items |-> items]

\* await q.put(s) on a queue of QueueCapacity entries: waits while full
Queue_put(items, s) ==
    IF Len(items) < QueueCapacity
    THEN [blocked |-> FALSE, items |-> Append(items, s)]
    ELSE [blocked |-> TRUE, items |-> items]

\* _GpioPin.watch: registration on entry, removal in the finally clause
_GpioPin_watch_enter(pin, q) == [pin EXCEPT !.mon = @ \cup {q}]

_GpioPin_watch_exit(pin, q, fails) == [pin EXCEPT !.mon = @ \ {q}]

\* the tasks of a test that watch a pin, each with one watch scope and the
\* queue that scope makes
Watchers == {1, 2}

\* the queue of a watcher that has not entered its scope: latest is the
\* tuple put to it last, owed says that a change was observed while it was
\* registered and has not been put to it yet
NoQueue ==
    [made |-> FALSE, pin |-> 0, items |-> <<>>, open |-> FALSE,
     failed |-> FALSE, latest |-> NoneState, owed |-> FALSE]

\* the polling task asleep between two polls
Sleeping == [pc |-> "sleep", file |-> <<>>, at |-> 0, todo |-> <<>>, s |-> NoneState]

\* the polling task goes on to the next line of the file, or seeks to the
\* start and sleeps after the last one
NextLine(poll) ==
    IF poll.at < Len(FilePins)
    THEN [poll EXCEPT !.pc = "scan", !.at = @ + 1, !.todo = <<>>, !.s = NoneState]
    ELSE Sleeping

\* GpioWatcher.__init__ with the mock pins low (pin 1, an input) and high
\* (pin 2, an output), nothing watched
NoWatcher ==
    [gpio |-> <<PinState(0, 0), PinState(1, 1)>>,
     targets |-> [p \in {1, 2} |-> NoPin],
     queues |-> [w \in Watchers |-> NoQueue],
     poll |-> Sleeping,
     prev |-> NoneState]

(* ------------------------------ actions -------------------------------- *)

\* history of one acquisition: event tags the kernel queued, Event values
\* __anext__ returned
NewStream(on) == [on |-> on, queued |-> <<>>, yielded |-> <<>>]

\* a granted request and a release both start the history afresh
StreamAfterRequestOrRelease(kern, kern2) ==
    [o \in DOMAIN stream |->
        IF kern2[o].req # kern[o].req THEN NewStream(stream[o].on) ELSE stream[o]]

\* __anext__ returned res after reading descriptor fd
StreamAfterYield(fd, res) ==
    [stream EXCEPT ![OffsetOf(fd)].yielded =
                      IF stream[OffsetOf(fd)].on /\ res.exc = "none"
                      THEN Append(@, res.val) ELSE @]

\* the kernel queued an event on offset o
StreamAfterEvent(o, tag) ==
    [stream EXCEPT ![o].queued = IF stream[o].on THEN Append(@, tag) ELSE @]

\* record of a call on Line i: state it was made in, arguments, native calls, result
Result(op, i, args, calls, res) ==
    [op |-> op, id |-> i, pre |-> lines[i]._state, args |-> args,
     calls |-> calls, res |-> res]

Idle == [pc |-> "idle", fd |-> None, left |-> FALSE]

\* a wait registered on a descriptor that is closed meanwhile is never woken
Registered(t, kern) ==
    IF t.pc = "waiting" /\ kern[OffsetOf(t.fd)].req # "ev"
    THEN [t EXCEPT !.pc = "orphaned"]
    ELSE t

Count(calls, fn) == Cardinality({k \in 1..Len(calls) : calls[k].fn = fn})

\* LINE.open(direction, default, flags)
Open(i) ==
    \E a \in OpenArgs :
      LET x == Line_open(lines[i], a[1], a[2], a[3])
      IN  /\ lines' = [lines EXCEPT ![i] = x.line]
          /\ last' = Result("open", i, a, <<>>,
                             IF x.res.exc = "none" THEN Ok(i) ELSE x.res)
          /\ UNCHANGED <<scope, kernel, task, nReqOk, nRelease, stream, chip,
                 event, watcher>>

\* LINE.monitor(type, flags)
Monitor(i) ==
    \E a \in MonitorArgs :
      LET x == Line_monitor(lines[i], a[1], a[2])
      IN  /\ lines' = [lines EXCEPT ![i] = x.line]
          /\ last' = Result("monitor", i, a, <<>>,
                             IF x.res.exc = "none" THEN Ok(i) ELSE x.res)
          /\ UNCHANGED <<scope, kernel, task, nReqOk, nRelease, stream, chip,
                 event, watcher>>

\* `with LINE:` entry; the block is open only when __enter__ returned
Enter(i) ==
    /\ nReqOk[i] < MaxAcquire
    /\ nRelease[i] < MaxAcquire
    /\ \E found \in BOOLEAN, granted \in BOOLEAN, relRaises \in BOOLEAN :
         LET x == Line__enter__(lines[i], kernel, found, granted, relRaises)
         IN  /\ lines' = [lines EXCEPT ![i] = x.line]
             /\ kernel' = x.kernel
             /\ scope' = [scope EXCEPT ![i] = @ \/ x.res.exc = "none"]
             /\ nReqOk' = [nReqOk EXCEPT ![i] = @ + (IF x.reqOk THEN 1 ELSE 0)]
             /\ nRelease' = [nRelease EXCEPT
                               ![i] = @ + Count(x.calls, "gpiod_line_release")]
             /\ last' = Result("enter", i, <<>>, x.calls,
                                IF x.res.exc = "none" THEN Ok(i) ELSE x.res)
             /\ task' = [j \in DOMAIN task |-> Registered(task[j], x.kernel)]
             /\ stream' = StreamAfterRequestOrRelease(kernel, x.kernel)
             /\ UNCHANGED <<chip, event, watcher>>

\* leaving the `with LINE:` block, normally or by an exception in its body
Exit(i) ==
    /\ scope[i]
    /\ \E relRaises \in BOOLEAN :
         LET x == Line__exit__(lines[i], kernel, relRaises)
         IN  /\ lines' = [lines EXCEPT ![i] = x.line]
             /\ kernel' = x.kernel
             /\ scope' = [scope EXCEPT ![i] = FALSE]
             /\ nRelease' = [nRelease EXCEPT
                               ![i] = @ + Count(x.calls, "gpiod_line_release")]
             /\ last' = Result("exit", i, <<>>, x.calls, x.res)
             /\ task' = [j \in DOMAIN task |->
                            Registered([task[j] EXCEPT !.left =
                                          @ \/ (/\ j = i
                                                /\ task[i].pc \in {"waiting", "ready"}
                                                /\ x.line._state # lines[i]._state)],
                                       x.kernel)]
             /\ stream' = StreamAfterRequestOrRelease(kernel, x.kernel)
             /\ UNCHANGED <<nReqOk, chip,
                 event, watcher>>

\* LINE.value
ValueGet(i) ==
    \E works \in BOOLEAN, level \in {0, 1} :
      LET x == Line_value_get(lines[i], kernel, works, level)
      IN  /\ last' = Result("value", i, <<>>, x.calls, x.res)
          /\ UNCHANGED <<lines, scope, kernel, task, nReqOk, nRelease, stream, chip,
                 event, watcher>>

\* variant in which a write the binding refuses ends the acquisition
ValueSetClosing(i) ==
    \E works \in BOOLEAN, value \in {0, 1} :
      LET x == Line_value_set(lines[i], kernel, value, works)
          refused == x.calls # <<>> /\ SetValueStatus(kernel, lines[i]._line, works) # 0
          y == Line__exit__(lines[i], x.kernel, FALSE)
      IN  /\ kernel' = IF refused THEN y.kernel ELSE x.kernel
          /\ lines' = [lines EXCEPT ![i] = IF refused THEN y.line ELSE @]
          /\ last' = Result("value=", i, <<value>>, x.calls, x.res)
          /\ UNCHANGED <<scope, task, nReqOk, nRelease, stream, chip, event, watcher>>

\* LINE.value = value
ValueSet(i) ==
    \E works \in BOOLEAN, value \in {0, 1} :
      LET x == Line_value_set(lines[i], kernel, value, works)
      IN  /\ kernel' = x.kernel
          /\ last' = Result("value=", i, <<value>>, x.calls, x.res)
          /\ UNCHANGED <<lines, scope, task, nReqOk, nRelease, stream, chip,
                 event, watcher>>

\* LINE.active_state, .is_open_drain, .is_open_source, .is_used, .name
Meta(i) ==
    \E a \in MetaAccessors, ret \in {0, 1} :
      LET x == Line_meta(lines[i], a, ret)
      IN  /\ last' = Result(a, i, <<>>, x.calls, x.res)
          /\ UNCHANGED <<lines, scope, kernel, task, nReqOk, nRelease, stream, chip,
                 event, watcher>>

\* LINE.direction, LINE.offset, LINE.consumer
Recorded(i) ==
    \E a \in RecordedAccessors, dies \in BOOLEAN :
      LET x == Line_recorded(lines[i], a, kernel, dies)
      IN  /\ last' = Result(a, i, <<>>, x.calls, x.res)
          /\ UNCHANGED <<lines, scope, kernel, task, nReqOk, nRelease, stream, chip,
                 event, watcher>>

\* `async for event in LINE:` starts with LINE.__aiter__()
Aiter(i) ==
    LET r == Line__aiter__(lines[i])
    IN  /\ last' = Result("aiter", i, <<>>, <<>>,
                           IF r.exc = "none" THEN Ok(i) ELSE r)
        /\ UNCHANGED <<lines, scope, kernel, task, nReqOk, nRelease, stream, chip,
                 event, watcher>>

\* variant in which the step reads the descriptor straight away instead of
\* awaiting its readiness: the task sits in the native read
AnextBeginBlocking(i) ==
    /\ task[i].pc = "idle"
    /\ \E works \in BOOLEAN :
         LET x == Line__anext__begin(lines[i], kernel, works)
         IN  /\ task' = [task EXCEPT ![i] = IF x.res.exc = "none"
                                             THEN [Idle EXCEPT !.pc = "blocked",
                                                               !.fd = x.fd]
                                             ELSE Idle]
             /\ last' = Result("anext", i, <<>>, x.calls,
                                IF x.res.exc = "none"
                                THEN [exc |-> "none", msg |-> "suspended", val |-> None]
                                ELSE x.res)
             /\ UNCHANGED <<lines, scope, kernel, nReqOk, nRelease, stream, chip,
                 event, watcher>>

\* the consumer task calls LINE.__anext__() and runs to the await
AnextBegin(i) ==
    /\ task[i].pc = "idle"
    /\ \E works \in BOOLEAN :
         LET x == Line__anext__begin(lines[i], kernel, works)
         IN  /\ task' = [task EXCEPT ![i] = IF x.res.exc = "none"
                                             THEN [Idle EXCEPT !.pc = "waiting",
                                                               !.fd = x.fd]
                                             ELSE Idle]
             /\ last' = Result("anext", i, <<>>, x.calls,
                                IF x.res.exc = "none"
                                THEN [exc |-> "none", msg |-> "suspended", val |-> None]
                                ELSE x.res)
             /\ UNCHANGED <<lines, scope, kernel, nReqOk, nRelease, stream, chip,
                 event, watcher>>

\* the scheduler sees the descriptor readable and marks the task runnable
Wake(i) ==
    /\ task[i].pc = "waiting"
    /\ Readable(kernel, task[i].fd)
    /\ task' = [task EXCEPT ![i].pc = "ready"]
    /\ UNCHANGED <<lines, scope, kernel, nReqOk, nRelease, last, stream, chip,
                 event, watcher>>

\* the consumer task runs again, after the await
AnextResume(i) ==
    /\ task[i].pc = "ready"
    /\ \E works \in BOOLEAN :
         LET x == Line__anext__resume(lines[i], kernel, task[i].fd, works)
         IN  /\ kernel' = x.kernel
             /\ task' = [task EXCEPT ![i] = IF x.pc = "blocked"
                                             THEN [@ EXCEPT !.pc = "blocked"]
                                             ELSE Idle]
             /\ last' = Result("anext", i, <<>>, x.calls,
                                IF x.pc = "blocked"
                                THEN [exc |-> "none", msg |-> "blocked", val |-> None]
                                ELSE x.res)
             /\ stream' = IF x.kernel # kernel
                          THEN StreamAfterYield(task[i].fd, x.res)
                          ELSE stream
             /\ UNCHANGED <<lines, scope, nReqOk, nRelease, chip,
                 event, watcher>>

\* variant in which the cancelled step takes the pending event with it
CancelConsumes(i) ==
    /\ task[i].pc \in {"waiting", "orphaned", "ready"}
    /\ task' = [task EXCEPT ![i] = Idle]
    /\ last' = Result("anext", i, <<>>, <<>>, Raise("Cancelled", ""))
    /\ kernel' = IF task[i].pc = "ready" /\ Readable(kernel, task[i].fd)
                 THEN gpiod_line_event_read_fd(kernel, task[i].fd)
                 ELSE kernel
    /\ UNCHANGED <<lines, scope, nReqOk, nRelease, stream, chip,
                 event, watcher>>

\* the scheduler cancels the consumer task at its await
Cancel(i) ==
    /\ task[i].pc \in {"waiting", "orphaned", "ready"}
    /\ task' = [task EXCEPT ![i] = Idle]
    /\ last' = Result("anext", i, <<>>, <<>>, Raise("Cancelled", ""))
    /\ UNCHANGED <<lines, scope, kernel, nReqOk, nRelease, stream, chip,
                 event, watcher>>

\* a read that found nothing to read returns once an event arrives
ReadUnblock(i) ==
    /\ task[i].pc = "blocked"
    /\ ReadOutcome(kernel, task[i].fd, TRUE) = "event"
    /\ kernel' = gpiod_line_event_read_fd(kernel, task[i].fd)
    /\ task' = [task EXCEPT ![i] = Idle]
    /\ last' = Result("anext", i, <<>>, <<>>,
                       Event(Head(kernel[OffsetOf(task[i].fd)].queue)))
    /\ stream' = StreamAfterYield(task[i].fd,
                                  Event(Head(kernel[OffsetOf(task[i].fd)].queue)))
    /\ UNCHANGED <<lines, scope, nReqOk, nRelease, chip,
                 event, watcher>>

\* the kernel queues an edge event on a line requested for events
KernelEvent(o) ==
    /\ kernel[o].req = "ev"
    /\ Len(kernel[o].queue) < MaxQueue
    /\ Len(stream[o].queued) < MaxEvents
    /\ \E tag \in {EVENT_RISING_EDGE, EVENT_FALLING_EDGE} :
         /\ kernel' = [kernel EXCEPT ![o].queue = Append(@, tag)]
         /\ stream' = StreamAfterEvent(o, tag)
    /\ UNCHANGED <<lines, scope, task, nReqOk, nRelease, last, chip,
                 event, watcher>>

\* no task runs while one is inside a blocking native read
Running == \A j \in DOMAIN task : task[j].pc # "blocked"

NoCall ==
    [op |-> "none", id |-> 0, pre |-> _FREE, args |-> <<>>, calls |-> <<>>,
     res |-> Ok(None)]

Init ==
    /\ lines = [i \in {1} |-> NewLine(0)]
    /\ scope = [i \in {1} |-> FALSE]
    /\ kernel = [o \in {0} |-> FreeKernelLine]
    /\ task = [i \in {1} |-> Idle]
    /\ nReqOk = [i \in {1} |-> 0]
    /\ nRelease = [i \in {1} |-> 0]
    /\ last = NoCall
    /\ stream = [o \in {0} |-> NewStream(FALSE)]
    /\ chip = OpenedChip
    /\ event = NoRecord
    /\ watcher = NoWatcher

Next ==
    \/ \E i \in DOMAIN lines :
          \/ Running /\ Monitor(i)
          \/ Running /\ Open(i)
          \/ Running /\ Enter(i)
          \/ Running /\ Exit(i)
          \/ Running /\ ValueGet(i)
          \/ Running /\ ValueSet(i)
          \/ Running /\ Meta(i)
          \/ Running /\ Recorded(i)
          \/ Running /\ Aiter(i)
          \/ Running /\ AnextBegin(i)
          \/ Running /\ Wake(i)
          \/ Running /\ AnextResume(i)
          \/ Running /\ Cancel(i)
          \/ ReadUnblock(i)
    \/ \E o \in DOMAIN kernel : KernelEvent(o)

Spec == Init /\ [][Next]_vars

(* --------------------------- error kinds ------------------------------- *)

StateError ==
    {Raise("OSError", "This line is already in use"),
     Raise("RuntimeError", "You need to call .open() or .event()")}
AcquireError == {Raise("OSError", "unable to get line")}
RequestError ==
    {Raise("OSError", "unable to set direction"),
     Raise("OSError", "unable to request event monitoring")}
NotOpenError == {NotOpen}

RequestFns ==
    {"gpiod_line_request_input_flags", "gpiod_line_request_output_flags",
     "gpiod_line_request"}
RequestIssued(c) == \E k \in 1..Len(c.calls) : c.calls[k].fn \in RequestFns

(* ------------------------------ claims --------------------------------- *)

\* C1: when the native request made during scoped entry returns non-zero, the
\* entry fails with a request error and the Line is then Free with no handle.
C1_FailedRequestReturnsToFree ==
    (last.op = "enter" /\ RequestIssued(last) /\ last.res.exc # "none")
        => /\ last.res \in RequestError
           /\ lines[last.id]._state = _FREE
           /\ lines[last.id]._line = None

\* C2 (as claimed): releases attempted equal successful requests; one release
\* per successful request and none for a request that did not succeed.
C2_ReleasesEqualSuccessfulRequests ==
    \A i \in DOMAIN lines :
        /\ nRelease[i] <= nReqOk[i]
        /\ ~scope[i] => nRelease[i] = nReqOk[i]

FailedIoEntry(i) ==
    /\ lines[i]._state = _PRE_IO
    /\ last'.op = "enter"
    /\ last'.res.exc # "none"
    /\ lines'[i]._line # NULL
    /\ Enter(i)

\* C2 (amended): a request succeeds exactly when a scope opens; a release is
\* attempted exactly once at each scoped exit and once in each scoped entry
\* that fails in its I/O request step, and at no other time.
C2_ReleasePerExitAndFailedIoEntry ==
    [][\A i \in DOMAIN lines :
         /\ nReqOk'[i] - nReqOk[i] = IF ~scope[i] /\ scope'[i] THEN 1 ELSE 0
         /\ nRelease'[i] - nRelease[i] =
              IF (scope[i] /\ ~scope'[i]) \/ FailedIoEntry(i) THEN 1 ELSE 0]_vars

C2_Witness ==
    /\ nReqOk[1] = 1
    /\ nRelease[1] = 2
    /\ ~scope[1]
    /\ last.op = "exit"

\* C3 (as claimed): open() succeeds from Free and fails with a state error
\* in Configuring(Event), ActiveIO and ActiveEvent.
C3_OpenOnlyFromFree ==
    last.op = "open" =>
        /\ last.pre = _FREE
              => last.res = Ok(last.id) /\ lines[last.id]._state = _PRE_IO
        /\ last.pre \in {_PRE_EV, _IN_IO, _IN_EV} => last.res \in StateError

\* C3 (amended): open() fails with a state error in ActiveIO and ActiveEvent
\* and leaves the state alone; from Free and both Configuring states it
\* returns the Line, now Configuring(IO) with direction, default and flags
\* recorded.
C3_OpenUnlessInUse ==
    last.op = "open" =>
        IF last.pre \in _IN_USE
        THEN last.res \in StateError /\ lines[last.id]._state = last.pre
        ELSE /\ last.res = Ok(last.id)
             /\ lines[last.id]._state = _PRE_IO
             /\ lines[last.id]._direction = last.args[1]
             /\ lines[last.id]._default = last.args[2]
             /\ lines[last.id]._flags = last.args[3]

C3_Witness ==
    /\ last.op = "open"
    /\ last.pre = _PRE_EV
    /\ last.res = Ok(1)
    /\ lines[1]._state = _PRE_IO

\* C4 (as claimed): monitor() succeeds from Free and fails with a state error
\* in Configuring(IO), ActiveIO and ActiveEvent.
C4_MonitorOnlyFromFree ==
    last.op = "monitor" =>
        /\ last.pre = _FREE
              => last.res = Ok(last.id) /\ lines[last.id]._state = _PRE_EV
        /\ last.pre \in {_PRE_IO, _IN_IO, _IN_EV} => last.res \in StateError

\* C4 (amended): monitor() fails with a state error in ActiveIO and
\* ActiveEvent; from Free and both Configuring states it moves the Line to
\* Configuring(Event) with the edge filter and flags recorded.
C4_MonitorUnlessInUse ==
    last.op = "monitor" =>
        IF last.pre \in _IN_USE
        THEN last.res \in StateError /\ lines[last.id]._state = last.pre
        ELSE /\ last.res = Ok(last.id)
             /\ lines[last.id]._state = _PRE_EV
             /\ lines[last.id]._type = last.args[1]
             /\ lines[last.id]._flags = last.args[2]

C4_Witness ==
    /\ last.op = "monitor"
    /\ last.pre = _PRE_IO
    /\ last.res = Ok(1)
    /\ lines[1]._state = _PRE_EV
    /\ lines[1]._flags = REQUEST_FLAG_ACTIVE_LOW

\* C5: in ActiveIO or ActiveEvent, open(), monitor() and scoped entry fail
\* with a state error, change neither the Line nor the native side, and make
\* no native call.
C5_DoubleAcquisitionRejected ==
    [][\A i \in DOMAIN lines :
         (/\ lines[i]._state \in _IN_USE
          /\ last'.id = i
          /\ \/ last'.op = "open" /\ Open(i)
             \/ last'.op = "monitor" /\ Monitor(i)
             \/ last'.op = "enter" /\ Enter(i))
            => /\ last'.res \in StateError
               /\ last'.calls = <<>>
               /\ lines' = lines
               /\ kernel' = kernel
               /\ nReqOk' = nReqOk
               /\ nRelease' = nRelease]_vars

C5_Witness ==
    /\ last.op = "open"
    /\ last.pre = _IN_IO
    /\ last.res \in StateError
    /\ scope[1]
    /\ kernel[0].req = "out"

LegalTransitions ==
    {<<_FREE, _PRE_IO>>, <<_FREE, _PRE_EV>>, <<_PRE_IO, _IN_IO>>,
     <<_PRE_EV, _IN_EV>>, <<_IN_IO, _FREE>>, <<_IN_EV, _FREE>>}
FailedAcquisitionReturn == {<<_PRE_IO, _FREE>>, <<_PRE_EV, _FREE>>}
Reconfiguration == {<<_PRE_IO, _PRE_EV>>, <<_PRE_EV, _PRE_IO>>}

\* C6 (as claimed): every change of lifecycle state is one of the six listed
\* transitions or the return to Free of a failed acquisition.
C6_OnlyListedTransitions ==
    [][\A i \in DOMAIN lines :
         lines'[i]._state # lines[i]._state
            => <<lines[i]._state, lines'[i]._state>>
                  \in LegalTransitions \cup FailedAcquisitionReturn]_vars

\* C6 (amended): every change of lifecycle state is one of the six listed
\* transitions, the return to Free made by a failing scoped entry, or a
\* reconfiguration between Configuring(IO) and Configuring(Event).
C6_ListedOrReconfiguration ==
    [][\A i \in DOMAIN lines :
         lines'[i]._state # lines[i]._state
            => LET t == <<lines[i]._state, lines'[i]._state>>
               IN  /\ t \in LegalTransitions \cup FailedAcquisitionReturn
                             \cup Reconfiguration
                   /\ t \in FailedAcquisitionReturn
                        => last'.op = "enter" /\ last'.res.exc # "none"]_vars

C6_Witness ==
    /\ last.op = "monitor"
    /\ last.pre = _PRE_IO
    /\ lines[1]._state = _PRE_EV
    /\ lines[1]._direction = DIRECTION_OUTPUT

\* C7: scoped exit always ends with the Line Free and without a handle,
\* attempts at most one release, and lets no error of the release escape.
C7_ExitAlwaysFrees ==
    last.op = "exit" =>
        /\ lines[last.id]._state = _FREE
        /\ lines[last.id]._line = None
        /\ last.res.exc = "none"
        /\ Count(last.calls, "gpiod_line_release") <= 1

\* C8: when gpiod_chip_get_line returns NULL during scoped entry, the entry
\* fails with an acquire error, no request is issued and the Line is Free.
C8_FailedGetLineReturnsToFree ==
    (last.op = "enter" /\ last.res.exc # "none" /\ lines[last.id]._line = NULL)
        => /\ last.res \in AcquireError
           /\ ~RequestIssued(last)
           /\ lines[last.id]._state = _FREE

\* C9: a consumer step that resumes after the Line left ActiveEvent during
\* its suspension fails with a not-open error and issues no event read, also
\* when the Line was acquired again before the step resumed.
C9_ResumeAfterReleaseFails ==
    [][\A i \in DOMAIN lines :
         (task[i].left /\ AnextResume(i))
            => last'.res \in NotOpenError /\ last'.calls = <<>>]_vars

\* C10: in Free and both Configuring states, reading or writing value and
\* reading active_state, is_open_drain, is_open_source, is_used or name fails
\* with a not-open error and makes no native call.
C10_AccessorsNeedActiveLine ==
    (/\ last.op \in {"value", "value="} \cup MetaAccessors
     /\ last.pre \notin _IN_USE)
        => last.res \in NotOpenError /\ last.calls = <<>>

C10_Witness ==
    /\ last.op = "value="
    /\ last.pre = _PRE_IO
    /\ last.res \in NotOpenError
    /\ lines[1]._state = _PRE_IO

\* C11: in Free and both Configuring states, however reached, direction,
\* offset and consumer return the recorded value and make no native call.
C11_RecordedValuesWhenNotActive ==
    (last.op \in RecordedAccessors /\ last.pre \notin _IN_USE)
        => /\ last.calls = <<>>
           /\ last.op = "direction" => last.res = Ok(lines[last.id]._direction)
           /\ last.op = "offset" => last.res = Ok(lines[last.id]._offset)
           /\ last.op = "consumer" => last.res = Ok(lines[last.id]._consumer)

\* open(direction, default, flags) followed by `with LINE:` where every
\* native call succeeds
OpenThenEnter(l, kern, a) ==
    LET o == Line_open(l, a[1], a[2], a[3])
    IN  [open |-> o.res, enter |-> Line__enter__(o.line, kern, TRUE, TRUE, FALSE)]

IoArgs == {a \in OpenArgs : a[1] \in {DIRECTION_INPUT, DIRECTION_OUTPUT}}

\* C12: after a scoped entry failed with a request error, the Line is not held,
\* and from then on, as long as it is not acquired, open() followed by a
\* scoped entry whose native calls succeed is accepted and ends in ActiveIO
\* with the handle recorded and the matching request issued once.
C12_ReacquireAfterFailedRequest ==
    /\ (last.op = "enter" /\ last.res \in RequestError)
          => lines[last.id]._state \notin _IN_USE
    /\ \A i \in DOMAIN lines : \A a \in IoArgs :
          lines[i]._state \notin _IN_USE =>
             LET x == OpenThenEnter(lines[i], kernel, a)
             IN  /\ x.open.exc = "none"
                 /\ x.enter.res.exc = "none"
                 /\ x.enter.reqOk
                 /\ x.enter.line._state = _IN_IO
                 /\ x.enter.line._line = lines[i]._offset + 1
                 /\ Count(x.enter.calls, "gpiod_line_request_input_flags")
                      + Count(x.enter.calls, "gpiod_line_request_output_flags") = 1

\* a failed event request has just left the Line in Configuring(Event) with
\* the handle still recorded
C12_Witness ==
    /\ last.op = "enter" /\ last.res \in RequestError
    /\ lines[1]._state = _PRE_EV /\ lines[1]._line # None

\* the calls that start a cycle: open(direction, default, flags) or
\* monitor(type, flags)
Configure(l, c) ==
    IF c.call = "open" THEN Line_open(l, c.a[1], c.a[2], c.a[3])
    ELSE Line_monitor(l, c.a[1], c.a[2])

ConfigureCalls ==
    [call : {"open"}, a : OpenArgs] \cup [call : {"monitor"}, a : MonitorArgs]

\* what a caller can observe of one cycle on Line l: the result of the
\* configuring call, the accessors while configured, and for each outcome of
\* the native calls the natives issued and the result of the scoped entry
CycleObservables(l, kern, c) ==
    LET o == Configure(l, c)
    IN  [configure |-> o.res,
         direction |-> Line_direction(o.line, kern, FALSE),
         offset |-> Line_offset(o.line, kern, FALSE),
         consumer |-> Line_consumer(o.line, kern, FALSE),
         enter |-> [n \in BOOLEAN \X BOOLEAN |->
                      LET x == Line__enter__(o.line, kern, n[1], n[2], FALSE)
                      IN  [calls |-> x.calls, res |-> x.res]]]

\* C13: after a release every observable result of the next cycle equals that
\* of a freshly created Line on the same offset given the same calls.
C13_CyclesIndependent ==
    (last.op = "exit" /\ last.res.exc = "none")
        => \A c \in ConfigureCalls :
              CycleObservables(lines[last.id], kernel, c)
                = CycleObservables(NewLine(lines[last.id]._offset), kernel, c)

NotConfiguredError ==
    {Raise("RuntimeError", "You need to call .open() or .event()")}

\* C14: a scoped entry on a Line in Free fails with a state error, issues no
\* native call and leaves the Line in Free with no handle.
C14_EntryFromFreeRejected ==
    (last.op = "enter" /\ last.pre = _FREE)
        => /\ last.res \in NotConfiguredError
           /\ last.calls = <<>>
           /\ lines[last.id]._state = _FREE
           /\ lines[last.id]._line = None
           /\ ~scope[last.id]
           /\ kernel[lines[last.id]._offset].req = "free"

\* the entry was tried on a Line that had been acquired and released before
C14_Witness ==
    /\ last.op = "enter" /\ last.pre = _FREE /\ last.res \in NotConfiguredError
    /\ nReqOk[1] = 1 /\ nRelease[1] = 1

\* the native request a Line in an Active state was acquired with, as its
\* recorded configuration describes it
RequestOf(l) ==
    IF l._state = _IN_EV
    THEN Call("gpiod_line_request", l._line, <<l._type, l._flags>>)
    ELSE IF l._direction = DIRECTION_INPUT
    THEN Call("gpiod_line_request_input_flags", l._line, <<l._flags>>)
    ELSE Call("gpiod_line_request_output_flags", l._line, <<l._flags, l._default>>)

\* the requests among the native calls of one operation
Requests(calls) == SelectSeq(calls, LAMBDA c : c.fn \in RequestFns)

\* kind of request the kernel holds for a Line in an Active state
KernelKindOf(l) ==
    IF l._state = _IN_EV THEN "ev"
    ELSE IF l._direction = DIRECTION_INPUT THEN "in" ELSE "out"

RecordedConfiguration(l) == <<l._state, l._direction, l._type, l._flags, l._default>>

\* C15: a Line never has more than one outstanding native acquisition: a
\* Line that is not Active holds none, a step that starts on an Active Line
\* issues no request, and a step that makes the Line Active issues exactly
\* one, whose parameters are the recorded ones; while the Line stays Active
\* the recorded direction, edge type, flags and default do not change and the
\* kernel holds the request they describe.
C15_OneAcquisitionFixedConfiguration ==
    [][\A i \in DOMAIN lines :
         /\ lines[i]._state \notin _IN_USE
               => kernel[lines[i]._offset].req = "free"
         /\ lines[i]._state \in _IN_USE
               => /\ (last' # last /\ last'.id = i) => Requests(last'.calls) = <<>>
                  /\ lines'[i]._state \in _IN_USE
                       => RecordedConfiguration(lines'[i]) = RecordedConfiguration(lines[i])
                  /\ kernel[lines[i]._offset].req = KernelKindOf(lines[i])
         /\ (lines[i]._state \notin _IN_USE /\ lines'[i]._state \in _IN_USE)
               => /\ last'.op = "enter" /\ last'.id = i
                  /\ Requests(last'.calls) = <<RequestOf(lines'[i])>>
                  /\ kernel'[lines[i]._offset].req = KernelKindOf(lines'[i])]_vars

\* an output acquired active-low with default 1, then used
C15_Witness ==
    /\ lines[1]._state = _IN_IO /\ lines[1]._flags = REQUEST_FLAG_ACTIVE_LOW
    /\ lines[1]._default = 1 /\ kernel[0].req = "out"
    /\ last.op = "value=" /\ last.res.exc = "none"

\* two Line objects made by the same Chip for the same offset: gpiod_chip_get_line
\* hands both the same handle
InitTwo ==
    /\ lines = [i \in {1, 2} |-> NewLine(0)]
    /\ scope = [i \in {1, 2} |-> FALSE]
    /\ kernel = [o \in {0} |-> FreeKernelLine]
    /\ task = [i \in {1, 2} |-> Idle]
    /\ nReqOk = [i \in {1, 2} |-> 0]
    /\ nRelease = [i \in {1, 2} |-> 0]
    /\ last = NoCall
    /\ stream = [o \in {0} |-> NewStream(FALSE)]
    /\ chip = OpenedChip
    /\ event = NoRecord
    /\ watcher = NoWatcher

\* both objects are configured with the default arguments of open() and
\* monitor()
NextTwo ==
    \E i \in DOMAIN lines :
        \/ Monitor(i) /\ last'.args = <<REQUEST_EVENT_RISING_EDGE, 0>>
        \/ Open(i) /\ last'.args = <<DIRECTION_INPUT, 0, 0>>
        \/ Enter(i)
        \/ Exit(i)

SpecTwo == InitTwo /\ [][NextTwo]_vars

ReleaseError == {Raise("NativeError", "gpiod_line_release")}

\* C16: two Line objects on one offset are never both in an Active state, and
\* while one is Active a scoped entry of the other that reaches the native
\* request fails (with a request error, or with the error of its cleanup).
C16_NeverBothActive ==
    \A i, j \in DOMAIN lines :
        i # j =>
          /\ ~(lines[i]._state \in _IN_USE /\ lines[j]._state \in _IN_USE)
          /\ (/\ last.op = "enter" /\ last.id = j /\ RequestIssued(last)
              /\ lines[i]._state \in _IN_USE /\ scope[i])
                => last.res \in RequestError \cup ReleaseError

IterationStateError ==
    {Raise("RuntimeError",
           "You need to call 'with LINE.monitor() / async for event in LINE'")}

\* C17: starting asynchronous iteration on a Line that is not in ActiveEvent
\* fails with a state error at the aiter step, without any native call; on a
\* Line in ActiveEvent it returns the Line.
C17_AiterNeedsActiveEvent ==
    last.op = "aiter" =>
        /\ last.calls = <<>>
        /\ last.pre = lines[last.id]._state
        /\ IF last.pre = _IN_EV THEN last.res = Ok(last.id)
           ELSE last.res \in IterationStateError

\* iteration is started on a Line acquired for I/O
C17_Witness ==
    /\ last.op = "aiter" /\ last.pre = _IN_IO /\ last.res \in IterationStateError
    /\ scope[1] /\ task[1].pc = "idle"

ReadError == {Raise("OSError", "unable to read update")}

\* the values an Event can carry
EventValues == {Ok(0), Ok(1)}

Reads(calls) == Count(calls, "gpiod_line_event_read_fd")

\* number of events queued on the descriptor a task waits on
Queued(kern, fd) == Len(kern[OffsetOf(fd)].queue)

\* C18: a step that resumes after its wait issues at most one event read. If
\* it returns, it issued exactly one read, took exactly one event off the
\* queue of its descriptor and returns the Event decoded from it. If the read
\* reports a non-zero status the step raises the read error after that one
\* read, takes no event, and leaves the Line and the kernel as they were. A
\* read that found nothing completes later without another native call.
C18_OneReadOneEvent ==
    [][\A i \in DOMAIN lines :
         /\ (task[i].pc = "ready" /\ task'[i].pc # "ready"
               /\ last'.res.exc # "Cancelled")
              => /\ Reads(last'.calls) <= 1
                 /\ Len(last'.calls) = Reads(last'.calls)
                 /\ lines' = lines
                 /\ task'[i].pc = "idle" /\ last'.res.exc = "none"
                      => /\ last'.res \in EventValues
                         /\ Reads(last'.calls) = 1
                         /\ Queued(kernel, task[i].fd) = Queued(kernel', task[i].fd) + 1
                         /\ last'.res = Event(Head(kernel[OffsetOf(task[i].fd)].queue))
                 /\ (Reads(last'.calls) = 1 /\ last'.res.exc # "none")
                      => /\ last'.res \in ReadError
                         /\ kernel' = kernel
                         /\ task'[i] = Idle
                 /\ task'[i].pc = "blocked"
                      => Reads(last'.calls) = 1 /\ kernel' = kernel
         /\ (task[i].pc = "blocked" /\ task'[i].pc # "blocked")
              => /\ last'.calls = <<>>
                 /\ last'.res \in EventValues
                 /\ lines' = lines
                 /\ Queued(kernel, task[i].fd) = Queued(kernel', task[i].fd) + 1]_vars

\* a read on a Line in ActiveEvent has just failed and the Line is still in
\* ActiveEvent, its event still queued
C18_Witness ==
    /\ last.op = "anext" /\ last.res \in ReadError
    /\ lines[1]._state = _IN_EV /\ kernel[0].req = "ev" /\ kernel[0].queue # <<>>
    /\ task[1] = Idle

\* one Line monitored by one consumer task, with the history of each
\* acquisition recorded
InitStream ==
    /\ lines = [i \in {1} |-> NewLine(0)]
    /\ scope = [i \in {1} |-> FALSE]
    /\ kernel = [o \in {0} |-> FreeKernelLine]
    /\ task = [i \in {1} |-> Idle]
    /\ nReqOk = [i \in {1} |-> 0]
    /\ nRelease = [i \in {1} |-> 0]
    /\ last = NoCall
    /\ stream = [o \in {0} |-> NewStream(TRUE)]
    /\ chip = OpenedChip
    /\ event = NoRecord
    /\ watcher = NoWatcher

NextStream ==
    \/ \E i \in DOMAIN lines :
          \/ Running /\ Monitor(i)
          \/ Running /\ Enter(i)
          \/ Running /\ Exit(i)
          \/ Running /\ AnextBegin(i)
          \/ Running /\ Wake(i)
          \/ Running /\ AnextResume(i)
          \/ Running /\ Cancel(i)
          \/ ReadUnblock(i)
    \/ \E o \in DOMAIN kernel : KernelEvent(o)

SpecStream == InitStream /\ [][NextStream]_vars

\* value of the Event made from a queued event tag
ValueOf(tag) == IF tag = EVENT_RISING_EDGE THEN 1 ELSE 0

\* events queued since the acquisition that were neither yielded nor are in
\* the kernel queue
Held(o) ==
    Len(stream[o].queued) - Len(stream[o].yielded) - Len(kernel[o].queue)

CancelledError == {Raise("Cancelled", "")}

\* the step a consumer starts next on Line l: up to the wait, and after it
NextStep(l, kern) ==
    LET b == Line__anext__begin(l, kern, TRUE)
    IN  [begin |-> b,
         readable |-> b.fd # None /\ Readable(kern, b.fd),
         resume |-> IF b.fd = None THEN b
                    ELSE Line__anext__resume(l, kern, b.fd, TRUE)]

\* C20: cancelling a suspended step makes no native call and changes neither
\* the Line (state, handle) nor the kernel (request, queued events); the task
\* is idle again, and if the Line is in ActiveEvent with an event queued the
\* step started next finds its descriptor readable and yields that event.
C20_CancelKeepsLineAndEvents ==
    [][\A i \in DOMAIN lines :
         (task[i].pc \in {"waiting", "orphaned", "ready"}
            /\ last' # last /\ last'.id = i /\ last'.res \in CancelledError)
           => /\ last'.calls = <<>>
              /\ lines' = lines /\ kernel' = kernel /\ scope' = scope
              /\ nRelease' = nRelease /\ stream' = stream
              /\ task'[i] = Idle
              /\ (/\ lines[i]._state = _IN_EV /\ lines[i]._line # None
                  /\ kernel[lines[i]._offset].req = "ev"
                  /\ kernel[lines[i]._offset].queue # <<>>)
                   => LET n == NextStep(lines'[i], kernel')
                      IN  /\ n.begin.res.exc = "none"
                          /\ n.readable
                          /\ n.resume.res
                               = Event(Head(kernel[lines[i]._offset].queue))
                          /\ n.resume.kernel[lines[i]._offset].queue
                               = Tail(kernel[lines[i]._offset].queue)]_vars

\* a step was cancelled while the Line is in ActiveEvent with an event queued
C20_Witness ==
    /\ last.op = "anext" /\ last.res \in CancelledError
    /\ lines[1]._state = _IN_EV /\ lines[1]._line # None /\ scope[1]
    /\ kernel[0].req = "ev" /\ kernel[0].queue # <<>>
    /\ task[1] = Idle

\* a step that has not finished: suspended at the await, or inside the read
StepPending ==
    {[exc |-> "none", msg |-> "suspended", val |-> None],
     [exc |-> "none", msg |-> "blocked", val |-> None]}

\* the exceptions that leave Line.__anext__, the cancellation included
StepExceptions == {"RuntimeError", "OSError", "TypeError", "Cancelled"}

WrongStateError == {Raise("RuntimeError", "wrong state")}

\* C21: every step of the event stream is pending, returns an Event, raises an
\* error or is cancelled, and never signals the end of the iteration; a step
\* started on a Line that is not monitored (released, or never acquired)
\* raises an error without any native call.
C21_StreamNeverEndsSilently ==
    /\ last.op = "anext"
         => \/ last.res \in StepPending
            \/ last.res \in EventValues
            \/ last.res.exc \in StepExceptions
    /\ \A i \in DOMAIN lines :
         lines[i]._state # _IN_EV
            => \A works \in BOOLEAN :
                  LET b == Line__anext__begin(lines[i], kernel, works)
                  IN  /\ b.res \in WrongStateError
                      /\ b.calls = <<>>
                      /\ b.fd = None

\* a step was started on a Line that had been monitored and released
C21_Witness ==
    /\ last.op = "anext" /\ last.pre = _FREE /\ last.res \in WrongStateError
    /\ lines[1]._type # None /\ nReqOk[1] >= 1 /\ nRelease[1] >= 1
    /\ ~scope[1] /\ task[1] = Idle

\* two Lines on different offsets, each monitored and iterated by its own
\* task; the Lines stay acquired
Consumers == {1, 2}

InitFair ==
    /\ lines = [i \in Consumers |-> NewLine(i - 1)]
    /\ scope = [i \in Consumers |-> FALSE]
    /\ kernel = [o \in {0, 1} |-> FreeKernelLine]
    /\ task = [i \in Consumers |-> Idle]
    /\ nReqOk = [i \in Consumers |-> 0]
    /\ nRelease = [i \in Consumers |-> 0]
    /\ last = NoCall
    /\ stream = [o \in {0, 1} |-> NewStream(FALSE)]
    /\ chip = OpenedChip
    /\ event = NoRecord
    /\ watcher = NoWatcher

\* one step of consumer i in which the native calls succeed
Iterate(i) ==
    /\ Running
    /\ AnextBegin(i) \/ AnextResume(i)
    /\ last'.res.exc = "none"

NextFair ==
    \/ \E i \in Consumers :
          \/ Running /\ Monitor(i) /\ last'.args = <<REQUEST_EVENT_RISING_EDGE, 0>>
          \/ Running /\ Enter(i)
          \/ Iterate(i)
          \/ Running /\ Wake(i)
    \/ \E o \in DOMAIN kernel : KernelEvent(o)

\* the event loop runs every task that can run, and each consumer keeps
\* iterating
SpecFair ==
    /\ InitFair
    /\ [][NextFair]_vars
    /\ \A i \in Consumers : WF_vars(Iterate(i)) /\ WF_vars(Running /\ Wake(i))

\* C22: an event queued for a monitored Line is eventually yielded to that
\* Line's consumer, whatever happens on the other Line: the other consumer may
\* stay suspended for ever on a descriptor that never becomes readable.
C22_WaitingTaskBlocksNoOther ==
    \A i \in Consumers :
        (lines[i]._state = _IN_EV /\ kernel[i - 1].queue # <<>>)
            ~> (last.op = "anext" /\ last.id = i /\ last.res \in EventValues)

\* consumer 2 has just been given an event while consumer 1 is suspended on a
\* descriptor with no event
C22_Witness ==
    /\ last.op = "anext" /\ last.id = 2 /\ last.res \in EventValues
    /\ task[1].pc = "waiting" /\ kernel[0].req = "ev" /\ kernel[0].queue = <<>>

ClosedError == {Raise("OSError", "line is closed")}

\* C23: when gpiod_line_event_get_fd returns a negative descriptor the step
\* raises the closed error after that one call: the task does not suspend
\* and no event read is issued.
C23_NegativeDescriptorIsClosed ==
    /\ \A i \in DOMAIN lines : \A works \in BOOLEAN :
          (/\ lines[i]._state = _IN_EV /\ lines[i]._line # None
           /\ gpiod_line_event_get_fd(kernel, lines[i]._line, works) < 0)
             => LET b == Line__anext__begin(lines[i], kernel, works)
                IN  /\ b.res \in ClosedError
                    /\ b.fd = None
                    /\ b.calls = <<Call("gpiod_line_event_get_fd", lines[i]._line, <<>>)>>
    /\ (last.op = "anext" /\ last.res \in ClosedError)
          => /\ task[last.id] = Idle
             /\ Len(last.calls) = 1
             /\ last.calls[1].fn = "gpiod_line_event_get_fd"
             /\ last.pre = _IN_EV

\* the step failed on a monitored Line that has an event waiting
C23_Witness ==
    /\ last.op = "anext" /\ last.res \in ClosedError
    /\ lines[1]._state = _IN_EV /\ kernel[0].queue # <<>> /\ task[1] = Idle

\* what gpiod_line_get_value returns when it fails
GetValueFailed == Ok(0 - 1)

\* C24: a failing native call of the value accessors reaches the caller as an
\* error: the getter never returns the failure sentinel as a level, and a
\* setter that completes has set the level of an output.
C24_ValueFailuresSurfaced ==
    /\ (last.op = "value" /\ last.calls # <<>>) => last.res # GetValueFailed
    /\ (last.op = "value=" /\ last.calls # <<>> /\ last.res.exc = "none")
          => /\ kernel[lines[last.id]._offset].req = "out"
             /\ kernel[lines[last.id]._offset].val = last.args[1]

UnknownDirectionError == {Raise("RuntimeError", "Unknown direction")}

\* C25: a scoped entry that releases the handle while failing reports the
\* acquisition error (request error or unknown direction), whatever the
\* release does, and attempts the release once.
C25_CleanupKeepsOriginalError ==
    (last.op = "enter" /\ Count(last.calls, "gpiod_line_release") >= 1)
        => /\ last.res \in RequestError \cup UnknownDirectionError
           /\ Count(last.calls, "gpiod_line_release") = 1

(* ------------------------- the Chip and its Lines ----------------------- *)

\* what the callers pass: a number or none, a label or none, a consumer
ChipNums == {None, 0, 1}
OtherLabel == ChipLabel + 1
ChipLabels == {None, ChipLabel, OtherLabel}
ChipConsumers == {ProgramName, ConsumerName}
\* offsets asked of Chip.line: two lines of the chip and one it does not have
NoSuchOffset == 99
LineOffsets == {0, 1, NoSuchOffset}
LineConsumers == {None, ConsumerName}

ChipResult(op, args, calls, res) ==
    [op |-> op, id |-> 0, pre |-> _FREE, args |-> args, calls |-> calls,
     res |-> res]

\* c = Chip(num, label, consumer); a failed construction leaves c as it was
ChipNew ==
    /\ ~chip.entered
    /\ chip.id < MaxChips
    /\ \E num \in ChipNums, label \in ChipLabels, consumer \in ChipConsumers :
         LET r == Chip__init__(num, label, consumer)
         IN  /\ chip' = IF r.res.exc = "none"
                        THEN [r.chip EXCEPT !.id = chip.id + 1] ELSE chip
             /\ last' = ChipResult("Chip", <<num, label, consumer>>, <<>>, r.res)
    /\ UNCHANGED <<lines, scope, kernel, task, nReqOk, nRelease, stream, event, watcher>>

\* c = open_chip(num, label, consumer)
OpenChipCall ==
    /\ ~chip.entered
    /\ chip.id < MaxChips
    /\ \E num \in ChipNums, label \in ChipLabels, consumer \in ChipConsumers :
         LET r == open_chip(num, label, consumer)
         IN  /\ chip' = IF r.res.exc = "none"
                        THEN [r.chip EXCEPT !.id = chip.id + 1] ELSE chip
             /\ last' = ChipResult("open_chip", <<num, label, consumer>>, <<>>,
                                   r.res)
    /\ UNCHANGED <<lines, scope, kernel, task, nReqOk, nRelease, stream, event, watcher>>

\* "with c:" reaches its body when __enter__ returns; the scopes of one Chip
\* do not nest
ChipEnter ==
    /\ chip.made
    /\ ~chip.entered
    /\ \E found \in BOOLEAN :
         LET r == Chip__enter__(chip, found)
         IN  /\ chip' = [r.chip EXCEPT !.entered = (r.res.exc = "none")]
             /\ last' = ChipResult("chip_enter", <<>>, r.calls, r.res)
    /\ UNCHANGED <<lines, scope, kernel, task, nReqOk, nRelease, stream, event, watcher>>

\* the body of "with c:" is left
ChipExit ==
    /\ chip.entered
    /\ LET r == Chip__exit__(chip)
       IN  /\ chip' = [r.chip EXCEPT !.entered = FALSE]
           /\ last' = ChipResult("chip_exit", <<>>, r.calls, r.res)
    /\ UNCHANGED <<lines, scope, kernel, task, nReqOk, nRelease, stream, event, watcher>>

\* l = c.line(offset, consumer)
ChipLine ==
    /\ chip.made
    /\ Len(lines) < MaxLines
    /\ \E offset \in LineOffsets, consumer \in LineConsumers :
         /\ lines' = Append(lines, Chip_line(chip, offset, consumer))
         /\ last' = [op |-> "line", id |-> Len(lines) + 1, pre |-> _FREE,
                     args |-> <<offset, consumer>>, calls |-> <<>>,
                     res |-> Ok(Len(lines) + 1)]
    /\ scope' = Append(scope, FALSE)
    /\ task' = Append(task, Idle)
    /\ nReqOk' = Append(nReqOk, 0)
    /\ nRelease' = Append(nRelease, 0)
    /\ UNCHANGED <<kernel, stream, chip,
                 event, watcher>>

InitChip ==
    /\ lines = <<>>
    /\ scope = <<>>
    /\ kernel = [o \in {0, 1} |-> FreeKernelLine]
    /\ task = <<>>
    /\ nReqOk = <<>>
    /\ nRelease = <<>>
    /\ last = NoCall
    /\ stream = [o \in {0, 1} |-> NewStream(FALSE)]
    /\ chip = NoChip
    /\ event = NoRecord
    /\ watcher = NoWatcher

NextChip ==
    \/ ChipNew
    \/ OpenChipCall
    \/ ChipEnter
    \/ ChipExit
    \/ ChipLine

SpecChip == InitChip /\ [][NextChip]_vars

\* the configuration error of the constructor
ConfigurationError == {Raise("ValueError", "Specify either label or num")}

C27_NumberDefaultsToZero ==
    (last.op \in {"Chip", "open_chip"} /\ last.args[1] = None /\ last.args[2] = None)
        => /\ last.res.exc = "none"
           /\ chip._num = 0
           /\ Chip__enter__(chip, TRUE).calls =
                  <<Call("gpiod_chip_open_by_number", NULL, <<0>>)>>

\* the Chip holds a native handle
HoldsHandle(c) == c._chip \notin {None, NULL}

\* the open error of scoped entry
OpenError == {Raise("OSError", "unable to open chip")}

\* C28: a Chip holds a native handle exactly while its scope is entered; an
\* entry whose native open returns null fails with the open error and leaves
\* the Chip without a handle, an entry whose open returns a handle succeeds;
\* scoped exit makes exactly one native call, a chip_close, and clears the
\* handle.
C28_HandleExactlyInScope ==
    /\ HoldsHandle(chip) <=> chip.entered
    /\ last.op = "chip_enter" =>
         IF chip._chip = NULL
         THEN last.res \in OpenError
         ELSE last.res.exc = "none" /\ HoldsHandle(chip)
    /\ last.op = "chip_exit" =>
         /\ Len(last.calls) = 1
         /\ last.calls[1].fn = "gpiod_chip_close"
         /\ last.calls[1].h \notin {None, NULL}
         /\ chip._chip = None

C28_Witness ==
    /\ last.op = "chip_enter"
    /\ last.res \in OpenError
    /\ ~HoldsHandle(chip)
    /\ chip.id = 2

\* C30: Chip.line makes no native call and accepts every offset; the Line
\* it returns is Free, has no handle, is bound to that Chip and to the
\* offset given, and its consumer is the one given or, when none is given,
\* the Chip's.
C30_LineIsPureConstructor ==
    last.op = "line" =>
        /\ last.calls = <<>>
        /\ last.res.exc = "none"
        /\ lines[last.id]._state = _FREE
        /\ lines[last.id]._line = None
        /\ lines[last.id]._chip = chip.id
        /\ lines[last.id]._offset = last.args[1]
        /\ lines[last.id]._consumer =
              encode(IF last.args[2] = None THEN chip._consumer ELSE last.args[2])
        /\ kernel = [o \in DOMAIN kernel |-> FreeKernelLine]

C30_Witness ==
    /\ last.op = "line"
    /\ last.args = <<NoSuchOffset, ConsumerName>>
    /\ ~HoldsHandle(chip)
    /\ chip._consumer = ProgramName
    /\ lines[last.id]._consumer = encode(ConsumerName)

(* ---------------------------- Event decoding ---------------------------- *)

\* raw records: the two edge tags, two tags libgpiod does not define, and
\* times from the epoch to the last nanosecond of a later second
EventTags == {0, EVENT_RISING_EDGE, EVENT_FALLING_EDGE, 3}
LaterSecond == 1700000000
LastNanosecond == 999999999
Seconds == {0, 1, 2, LaterSecond}
Nanoseconds == {0, 1, 2, LastNanosecond}
RawEvents ==
    {RawEvent(t, sec, nsec) : t \in EventTags, sec \in Seconds, nsec \in Nanoseconds}

\* e = Event(ev) for the record at hand
Decode ==
    /\ last.op = "none"
    /\ LET r == Event__init__(event.raw)
       IN  /\ event' = [event EXCEPT !.obj = r.obj]
           /\ last' = ChipResult("Event",
                                 <<event.raw.event_type, event.raw.ts.tv_sec,
                                   event.raw.ts.tv_nsec>>, <<>>, r.res)
    /\ UNCHANGED <<lines, scope, kernel, task, nReqOk, nRelease, stream, chip,
                   watcher>>

\* e.timestamp
Timestamp ==
    /\ event.obj.made
    /\ last.op = "Event"
    /\ last' = ChipResult("timestamp", <<>>, <<>>, Ok(Event_timestamp(event.obj)))
    /\ UNCHANGED <<lines, scope, kernel, task, nReqOk, nRelease, stream, chip,
                   event, watcher>>

InitEvent ==
    /\ lines = [i \in {1} |-> NewLine(0)]
    /\ scope = [i \in {1} |-> FALSE]
    /\ kernel = [o \in {0} |-> FreeKernelLine]
    /\ task = [i \in {1} |-> Idle]
    /\ nReqOk = [i \in {1} |-> 0]
    /\ nRelease = [i \in {1} |-> 0]
    /\ last = NoCall
    /\ stream = [o \in {0} |-> NewStream(FALSE)]
    /\ chip = OpenedChip
    /\ event \in {[raw |-> ev, obj |-> NoEvent] : ev \in RawEvents}
    /\ watcher = NoWatcher

NextEvent ==
    \/ Decode
    \/ Timestamp

SpecEvent == InitEvent /\ [][NextEvent]_vars

\* the decode error
DecodeError == {Raise("RuntimeError", "Unknown event type")}

\* C29: decoding a raw record with the rising-edge tag gives an Event of
\* value 1, with the falling-edge tag an Event of value 0, and with any other
\* tag fails with the decode error and gives no Event; the timestamp of the
\* Event is the (seconds, nanoseconds) pair of the raw record.
C29_DecodeKeepsEdgeAndTime ==
    /\ last.op = "Event" =>
         IF last.args[1] = EVENT_RISING_EDGE
         THEN last.res = Ok(1) /\ event.obj.made /\ event.obj.value = 1
         ELSE IF last.args[1] = EVENT_FALLING_EDGE
         THEN last.res = Ok(0) /\ event.obj.made /\ event.obj.value = 0
         ELSE last.res \in DecodeError /\ ~event.obj.made
    /\ last.op = "timestamp" =>
         /\ last.res.exc = "none"
         /\ last.res.val = <<event.raw.ts.tv_sec, event.raw.ts.tv_nsec>>

C29_Witness ==
    /\ last.op = "timestamp"
    /\ event.raw = RawEvent(EVENT_FALLING_EDGE, LaterSecond, LastNanosecond)
    /\ event.obj.value = 0
    /\ last.res.val = <<LaterSecond, LastNanosecond>>

(* --------------------------- value round trip --------------------------- *)

\* one Line that is configured, acquired, written, read, queried and
\* released
InitValue == Init

NextValue ==
    \/ Open(1)
    \/ Monitor(1)
    \/ Enter(1)
    \/ Exit(1)
    \/ ValueSet(1)
    \/ ValueGet(1)
    \/ Meta(1)
    \/ Recorded(1)

SpecValue == InitValue /\ [][NextValue]_vars

\* the Line is in ActiveIO and the native side holds its handle as an output
ActiveOutput(l, kern) ==
    /\ l._state = _IN_IO
    /\ l._line \notin {None, NULL}
    /\ kern[OffsetOf(l._line)].req = "out"

\* the sequences of values written before the read
WriteSequences == UNION {[1..n -> {0, 1}] : n \in 1..MaxWrites}

\* native state after "LINE.value = v" for each v of vs in turn, the binding
\* working
RECURSIVE WriteAll(_, _, _)
WriteAll(l, kern, vs) ==
    IF vs = <<>> THEN kern
    ELSE WriteAll(l, Line_value_set(l, kern, Head(vs), TRUE).kernel, Tail(vs))

\* C31: on an output Line in ActiveIO whose native binding works, after any
\* sequence of writes of 0 and 1 the value read is the last value written,
\* whatever level is driven from outside; in particular writing v and
\* reading yields v.
C31_ReadsBackLastWrite ==
    \A i \in DOMAIN lines :
        ActiveOutput(lines[i], kernel) =>
            \A vs \in WriteSequences, level \in {0, 1} :
                /\ \A k \in 1..Len(vs) :
                      Line_value_set(lines[i], kernel, vs[k], TRUE).res = Ok(None)
                /\ Line_value_get(lines[i], WriteAll(lines[i], kernel, vs),
                                  TRUE, level).res = Ok(vs[Len(vs)])

C31_Witness ==
    /\ ActiveOutput(lines[1], kernel)
    /\ lines[1]._default = 0
    /\ last.op = "value"
    /\ last.res = Ok(1)

(* ------------------------ handle and lifecycle state -------------------- *)

\* the Line object holds a native line handle
HoldsLine(l) == l._line \notin {None, NULL}

\* C32: between operations a Line holds a native line handle exactly when
\* its state is ActiveIO or ActiveEvent; in Free and in both Configuring
\* states it holds none.
C32_HandleIffActive ==
    \A i \in DOMAIN lines : HoldsLine(lines[i]) <=> lines[i]._state \in _IN_USE

(* --------------------------- accessors' frame ---------------------------- *)

\* the operations named value, value=, direction, offset, consumer,
\* active_state, is_open_drain, is_open_source, is_used and name
AccessorOps == {"value", "value="} \cup RecordedAccessors \cup MetaAccessors

\* C33: a value read, a value write or a metadata accessor, returning or
\* raising, leaves the Line's lifecycle state, handle and recorded
\* configuration as they were, and leaves every task where it was: the call
\* does not suspend.
C33_AccessorsChangeNothing ==
    [][\A i \in DOMAIN lines :
          (/\ last'.op \in AccessorOps
           /\ last'.id = i
           /\ ValueGet(i) \/ ValueSet(i) \/ Meta(i) \/ Recorded(i))
              => /\ lines' = lines
                 /\ task' = task
                 /\ scope' = scope]_vars

C33_Witness ==
    /\ last.op = "value="
    /\ last.calls # <<>>
    /\ lines[1]._state = _IN_EV
    /\ HoldsLine(lines[1])

(* ----------------------- two Lines on one offset ------------------------ *)

\* C34: while one Line is Active with its handle requested in the kernel, an
\* entry of another Line on the same handle that fails leaves the first
\* Line as it was and leaves the handle requested.
C34_FailedEntryKeepsOtherAcquisition ==
    [][\A i, j \in DOMAIN lines :
          (/\ i # j
           /\ lines[i]._state \in _IN_USE
           /\ HoldsLine(lines[i])
           /\ kernel[OffsetOf(lines[i]._line)].req # "free"
           /\ last'.op = "enter"
           /\ last'.id = j
           /\ last'.res.exc # "none"
           /\ Enter(j))
              => /\ lines'[i] = lines[i]
                 /\ kernel'[OffsetOf(lines[i]._line)].req =
                        kernel[OffsetOf(lines[i]._line)].req]_vars

(* --------------------------- reads that block --------------------------- *)

\* C35: with one consumer task per Line, no iteration step issues the native
\* event read while nothing is pending on the descriptor: no task is ever
\* inside a read that has nothing to return, whatever releases,
\* re-acquisitions and cancellations happened while the step was suspended.
C35_ReadNeverBlocks ==
    \A i \in DOMAIN task : task[i].pc # "blocked"

(* ------------------------- mock harness: watching ----------------------- *)

\* "async with watcher.monitor(chip, pin) as q:" is entered by task w
Watch ==
    /\ \E w \in Watchers, p \in WatchedPins :
         LET r == GpioWatcher_pin(watcher.targets, p, TRUE)
         IN  /\ ~watcher.queues[w].made
             /\ watcher' =
                   [watcher EXCEPT
                      !.targets = [r.targets EXCEPT
                                     ![p] = _GpioPin_watch_enter(@, w)],
                      !.queues[w] = [NoQueue EXCEPT !.made = TRUE, !.pin = p,
                                                    !.open = TRUE]]
    /\ UNCHANGED <<lines, scope, kernel, task, nReqOk, nRelease, last, stream,
                   chip, event>>

\* the body of a watch scope ends, normally or with an exception
Unwatch ==
    /\ \E w \in Watchers, fails \in BOOLEAN :
         LET p == watcher.queues[w].pin
         IN  /\ watcher.queues[w].open
             /\ watcher' =
                   [watcher EXCEPT
                      !.targets[p] = _GpioPin_watch_exit(@, w, fails),
                      !.queues[w].open = FALSE,
                      !.queues[w].failed = fails]
    /\ UNCHANGED <<lines, scope, kernel, task, nReqOk, nRelease, last, stream,
                   chip, event>>

\* the body of a watch scope takes the next tuple: await q.get()
Get ==
    /\ \E w \in Watchers :
         /\ watcher.queues[w].open
         /\ watcher.queues[w].items # <<>>
         /\ watcher' = [watcher EXCEPT !.queues[w].items = Tail(@)]
    /\ UNCHANGED <<lines, scope, kernel, task, nReqOk, nRelease, last, stream,
                   chip, event>>

\* the level of the watched mock pin changes
PinChange ==
    /\ \E p \in WatchedPins :
         watcher' = [watcher EXCEPT !.gpio[p] = PinState(@[1], 1 - @[2])]
    /\ UNCHANGED <<lines, scope, kernel, task, nReqOk, nRelease, last, stream,
                   chip, event>>

\* check_pins starts: the polling task wakes and reads the debug file
PollStart ==
    /\ watcher.poll.pc = "sleep"
    /\ watcher' = [watcher EXCEPT
                     !.poll = [Sleeping EXCEPT !.pc = "scan", !.at = 1,
                                               !.file = watcher.gpio]]
    /\ UNCHANGED <<lines, scope, kernel, task, nReqOk, nRelease, last, stream,
                   chip, event>>

\* check_pins handles one pin line: pin(chip, pin, create=False), and see()
\* up to its first put; prev is the state the polls read last for a pin
\* that has an object
See ==
    /\ watcher.poll.pc = "scan"
    /\ LET p == FilePins[watcher.poll.at]
           s == watcher.poll.file[p]
           r == GpioWatcher_pin(watcher.targets, p, FALSE)
       IN  IF r.res.exc # "none"
           THEN watcher' = [watcher EXCEPT !.targets = r.targets,
                                           !.poll = NextLine(@)]
           ELSE \E order \in Orders(watcher.targets[p].mon) :
                  LET x == _GpioPin_see(watcher.targets[p], s, order)
                  IN  watcher' =
                        [watcher EXCEPT
                           !.targets[p] = x.pin,
                           !.poll = IF x.todo = <<>> THEN NextLine(@)
                                    ELSE [@ EXCEPT !.pc = "put",
                                                   !.todo = x.todo, !.s = s],
                           !.prev = s,
                           !.queues =
                              [w \in Watchers |->
                                 IF s # watcher.prev /\ w \in watcher.targets[p].mon
                                 THEN [@[w] EXCEPT !.owed = TRUE]
                                 ELSE @[w]]]
    /\ UNCHANGED <<lines, scope, kernel, task, nReqOk, nRelease, last, stream,
                   chip, event>>

\* the loop of see() puts the state to the next queue of its list; the step
\* only happens when the put does not wait
Put ==
    /\ watcher.poll.pc = "put"
    /\ LET w == Head(watcher.poll.todo)
           x == Queue_put(watcher.queues[w].items, watcher.poll.s)
           put == x.items # watcher.queues[w].items
       IN  /\ ~x.blocked
           /\ watcher' =
                 [watcher EXCEPT
                    !.queues[w].items = x.items,
                    !.queues[w].latest = IF put THEN watcher.poll.s ELSE @,
                    !.queues[w].owed = IF put THEN FALSE ELSE @,
                    !.poll = IF Tail(@.todo) = <<>> THEN NextLine(@)
                             ELSE [@ EXCEPT !.todo = Tail(@)]]
    /\ UNCHANGED <<lines, scope, kernel, task, nReqOk, nRelease, last, stream,
                   chip, event>>

InitWatch ==
    /\ lines = [i \in {1} |-> NewLine(0)]
    /\ scope = [i \in {1} |-> FALSE]
    /\ kernel = [o \in {0} |-> FreeKernelLine]
    /\ task = [i \in {1} |-> Idle]
    /\ nReqOk = [i \in {1} |-> 0]
    /\ nRelease = [i \in {1} |-> 0]
    /\ last = NoCall
    /\ stream = [o \in {0} |-> NewStream(FALSE)]
    /\ chip = OpenedChip
    /\ event = NoRecord
    /\ watcher = NoWatcher

NextWatch ==
    \/ Watch
    \/ Unwatch
    \/ Get
    \/ PinChange
    \/ PollStart
    \/ See
    \/ Put

SpecWatch == InitWatch /\ [][NextWatch]_vars

\* the queues registered on the watched pin, and those see() has still to
\* put to
Mon(wt) == UNION {wt.targets[p].mon : p \in WatchedPins}
Todo(wt) == {wt.poll.todo[k] : k \in 1..Len(wt.poll.todo)}

\* a tuple was put to the queue of w in this step
Delivered(w) ==
    /\ Len(watcher'.queues[w].items) > Len(watcher.queues[w].items)
    /\ watcher'.queues[w].items =
          Append(watcher.queues[w].items, watcher'.queues[w].latest)

\* C36: see() starts putting exactly when the poll read a state other than
\* the one read before, and then to each registered queue once; a tuple put
\* to a queue is the state just observed, was owed to that queue and differs
\* from the tuple put to it before, so tuples arrive in the order observed
\* and never twice in a row; a queue is registered exactly while its watch
\* scope is open, also after a body that failed.
C36_DeliveredOnChangeInOrder ==
    [][/\ (watcher'.poll.pc = "put" /\ watcher.poll.pc # "put")
            => watcher'.prev # watcher.prev
       /\ watcher'.prev # watcher.prev
            => /\ Todo(watcher') = Mon(watcher)
               /\ Len(watcher'.poll.todo) = Cardinality(Mon(watcher))
               /\ Mon(watcher) # {}
                    => /\ watcher'.poll.pc = "put"
                       /\ watcher'.poll.s = watcher'.prev
       /\ \A w \in Watchers :
            /\ watcher'.queues[w].items # watcher.queues[w].items
                 => \/ /\ watcher.queues[w].items # <<>>
                       /\ watcher'.queues[w].items = Tail(watcher.queues[w].items)
                    \/ /\ Delivered(w)
                       /\ watcher.queues[w].owed
                       /\ watcher'.queues[w].latest = watcher.prev
                       /\ watcher'.queues[w].latest # watcher.queues[w].latest
            /\ w \in Mon(watcher') <=> watcher'.queues[w].open]_vars

C36_Witness ==
    /\ watcher.queues[1].failed
    /\ ~watcher.queues[1].open
    /\ 1 \notin Mon(watcher)
    /\ Len(watcher.queues[1].items) = 3
    /\ watcher.queues[2].open
    /\ Len(watcher.queues[2].items) = 2

\* the polling task is inside a put to a queue that is full
PutWaits(wt) ==
    /\ wt.poll.pc = "put"
    /\ Len(wt.queues[Head(wt.poll.todo)].items) = QueueCapacity

\* C37: a change observed by a poll is owed to every queue registered then,
\* and what is owed to a queue stays in the hands of the polling task until
\* it is in the queue; no further change is observed meanwhile; while the
\* queue is full the polling task stays where it is; a pin that was never
\* registered gets no pin object and its line of the file changes nothing.
C37_NoChangeDropped ==
    [][/\ \A w \in Watchers :
            /\ watcher'.queues[w].owed
                 <=> (watcher'.poll.pc = "put" /\ w \in Todo(watcher'))
            /\ Len(watcher'.queues[w].items) <= QueueCapacity
       /\ watcher'.prev # watcher.prev
            => /\ \A w \in Mon(watcher) : watcher'.queues[w].owed
               /\ \A w \in Watchers : ~watcher.queues[w].owed
       /\ PutWaits(watcher)
            => /\ watcher'.poll = watcher.poll
               /\ watcher'.prev = watcher.prev
       /\ \A p \in {FilePins[k] : k \in 1..Len(FilePins)} \ WatchedPins :
            /\ ~watcher'.targets[p].made
            /\ (/\ watcher.poll.pc = "scan"
                /\ FilePins[watcher.poll.at] = p
                /\ watcher'.poll # watcher.poll)
                 => /\ watcher'.queues = watcher.queues
                    /\ watcher'.targets = watcher.targets
                    /\ watcher'.poll.pc # "put"]_vars

C37_Witness ==
    /\ PutWaits(watcher)
    /\ Len(watcher.poll.todo) = 2
    /\ watcher.queues[watcher.poll.todo[2]].owed

====
